---- MODULE Spec2Model ----
(***************************************************************************)
(* icepipe: an authenticated, encrypted byte pipe between two peers.       *)
(*                                                                         *)
(* Spec        the assembled Connection (Chacha20Stream over Sctp) of two  *)
(*             peers, driven by an arbitrary client of the                 *)
(*             wait / then / send / close interface.                       *)
(* SpecPump    the same two Connections driven by the top-level pump of    *)
(*             icepipe-cat, with an AsyncPipeStream on the local side.     *)
(* SpecKeys    Chacha20Stream::new with any key material and any roles,    *)
(*             and the records sealed and opened with the derived keys.    *)
(* SpecConnect connect(): channel derivation, Websocket::new, the key      *)
(*             agreement and the "Icepipe" handshake over the signalling   *)
(*             server.  FairSpecConnect adds the scheduler's fairness.     *)
(* SpecPumpErr SpecPump with a failing read of the local input.            *)
(* FairSpecPumpClean  the pump with the ICE connection up and fair steps.  *)
(* SpecWatch   a connected Sctp receiving while the ICE state changes.     *)
(* SpecWs      one Websocket, its two timers, the server and the clock.    *)
(* SpecIce     the candidate pump of one IceAgent and the waits dropped    *)
(*             by a select.                                                *)
(* SpecSizes   a Connection carrying payloads at the edges of the SCTP     *)
(*             message limit and of the read buffer.                       *)
(* SpecAgent   IceAgent::new, the "Icepipe" handshake, connect, the pump  *)
(*             and close of one peer.                                      *)
(* SpecShut    one connected peer that pumps and closes its exchange on a  *)
(*             socket the server may close.                                *)
(* SpecClose   two connected peers that close their exchanges;             *)
(*             FairSpecClose adds the fairness of runtime and server.      *)
(* SpecDrop    connect() of connect.rs around IceAgent::connect, up to the *)
(*             drop of the IceAgent.  FairSpecIce is SpecIce with a fair   *)
(*             select.                                                     *)
(* SpecLayers  a connected pair sending, closing and reading while the ICE *)
(*             state changes.                                              *)
(* SpecFlow    Sctp::send and Sctp::close against the buffered amount of   *)
(*             the stream; SpecFlowClose and FairSpecFlow for close alone. *)
(* SpecTamper  a connected pair over a network that modifies, replays,     *)
(*             reorders and reflects records.                              *)
(* SpecSeq     one Sequential nonce sequence from any seed.                *)
(* SpecErrors  an error of the signalling layer through the From           *)
(*             conversions of the error types.                             *)
(* SpecAuth    PskAuthentication with any PSKs and roles, pairs presented  *)
(*             to either peer.                                             *)
(* SpecAgreeLive  the receives of Agreement::agree under Ping, Pong and    *)
(*             timer events.                                               *)
(***************************************************************************)
EXTENDS Naturals, Integers, Sequences, FiniteSets, TLC

----------------------------------------------------------------------------
(* Bounds of the model *)

\* payloads the clients pass to send in one session
MaxSends == 2
\* close calls the clients make in one session
MaxCloses == 2
\* ICE connection-state changes published in one session
MaxIceEvents == 1
\* chunks read from one peer's local input by the pump
MaxInput == 2

\* ICE candidates one peer's agent gathers
MaxCandidates == 1

\* key material agreed by the peers (stands for the X25519 shared secret)
KeyMaterials == {1, 2}
\* byte strings handed to send: the empty payload and a one-byte payload
Payloads == {<<>>, <<7>>}

Peers == {"A", "B"}
Other(p) == IF p = "A" THEN "B" ELSE "A"

\* Option<T>: None and Some(x)
None == <<>>
Some(x) == <<x>>

IsPrefix(s, t) == Len(s) <= Len(t) /\ SubSeq(t, 1, Len(s)) = s

----------------------------------------------------------------------------
(* crypto_stream.rs: key schedule, nonce sequence, AEAD *)

\* u128 and the 96-bit nonce, scaled down so that TLC can count them: the
\* counter lives modulo U128 and the nonce is its low part modulo U96
U128 == 64
U96 == 16
\* length of the Poly1305 tag appended by seal_in_place_append_tag
TagLen == 16

NoKey == <<>>

RoleInfo(dialer) == IF dialer THEN "dialer" ELSE "listener"

\* HKDF-SHA512 is modelled as a perfect pseudo-random function: two outputs
\* are equal exactly when salt, input key material and info are equal
Derive(basekey, dialer, salt) == <<"hkdf", salt, basekey, RoleInfo(dialer)>>

get_key(basekey, dialer) == Derive(basekey, dialer, "key")

\* u128::from_be_bytes of the 16 derived bytes: a number fixed by the
\* derivation inputs, different for the two roles
SeqOfBytes(okm) == (okm[3] * 20 + (IF okm[4] = "dialer" THEN 5 ELSE 13)) % U128

get_seq(basekey, dialer) == SeqOfBytes(Derive(basekey, dialer, "seq"))

Chacha20NewSameRole(basekey, dialer) ==
    [sealing_key |-> get_key(basekey, dialer),
     sealing_seq |-> get_seq(basekey, dialer),
     opening_key |-> get_key(basekey, dialer),
     opening_seq |-> get_seq(basekey, dialer)]

Chacha20New(basekey, dialer) ==
    [sealing_key |-> get_key(basekey, dialer),
     sealing_seq |-> get_seq(basekey, dialer),
     opening_key |-> get_key(basekey, ~dialer),
     opening_seq |-> get_seq(basekey, ~dialer)]

\* Sequential::advance: the nonce is the low 96 bits, the counter grows by 1
AdvanceNonce(seq) == seq % U96
\* a counter that stays where it is
AdvanceNextStuck(seq) == seq
AdvanceNext(seq) == (seq + 1) % U128

\* bytes on the wire: k = NoKey marks bytes that are not an AEAD record
Bytes(k, n, pt, len) == [k |-> k, n |-> n, pt |-> pt, len |-> len]
NoBytes == Bytes(NoKey, 0, <<>>, 0)

\* a sealing that appends no tag
SealNoTag(key, nonce, pt) == Bytes(key, nonce, pt, Len(pt))

\* SealingKey::seal_in_place_append_tag: the ciphertext and the 16-byte tag
Seal(key, nonce, pt) == Bytes(key, nonce, pt, Len(pt) + TagLen)
\* an opening that does not bind the nonce
OpenOkAnyNonce(key, nonce, ct) == ct.len >= TagLen /\ ct.k = key

\* OpeningKey::open_in_place: the tag verifies under the key and the nonce
OpenOk(key, nonce, ct) == ct.len >= TagLen /\ ct.k = key /\ ct.n = nonce

----------------------------------------------------------------------------
(* sctp.rs *)

\* the states the ICE agent publishes once the connection is up, from the
\* state it is in
IceTransitions(s) ==
    CASE s = "Connected" -> {"Disconnected", "Failed", "Closed", "Completed"}
      [] s = "Disconnected" -> {"Connected", "Checking", "Failed", "Closed"}
      [] s = "Checking" -> {"Connected", "Failed", "Closed"}
      [] s = "Completed" -> {"Disconnected", "Failed", "Closed"}
      [] s = "Failed" -> {"Closed"}
      [] OTHER -> {}

\* a connection_closed that counts the terminal states only
connection_closed_terminal(s) == s \in {"Failed", "Closed"}

\* Sctp::connection_closed, on the state the watcher holds
connection_closed(s) == s \in {"Completed", "Failed", "Disconnected", "Closed"}

Msg(ppid, data) == [ppid |-> ppid, data |-> data]
\* the one-byte frame both sides write at setup
ProbeMsg == Msg("StringEmpty", Bytes(NoKey, 0, <<0>>, 1))
\* what the far end reads once the stream has been reset: zero bytes
EosMsg == Msg("Unknown", NoBytes)

\* Sctp::Value
Left(s) == [tag |-> "Left", n |-> 0, ppid |-> "Unknown"]
Right(n, ppid) == [tag |-> "Right", n |-> n, ppid |-> ppid]

VARIABLES
    basekey,        \* key material handed to Chacha20Stream::new
    dialer,         \* role of each peer
    sealing_key, opening_key, sealing_seq, opening_seq,   \* Chacha20Stream
    rxq,            \* stream: messages written by the far end, not yet read
    write_shutdown, read_shutdown,                        \* stream halves
    buf,            \* Sctp.buf: the bytes of the last read
    rx_closed,      \* Sctp.rx_closed
    connection,     \* latest ICE state on the watcher
    conn_changed,   \* the watcher holds a state this receiver has not seen
    cpc,            \* where the session and each client stand
    err,            \* the error a peer ended with, "" if none
    sent,           \* payloads passed to send that returned Ok
    delivered,      \* payloads returned as Some by then
    closes,         \* close calls that returned Ok
    shutdown_calls, \* stream.shutdown calls made by Sctp::close
    close_sleeps,   \* sleeps made by Sctp::close
    ice_events      \* ICE state changes published so far

VARIABLES
    rx_shut,        \* AsyncPipeStream.rx_shut
    in_read,        \* chunks read from the local input (returned by local then)
    output,         \* chunks written to the local output
    out_shutdowns,  \* output.shutdown calls made by AsyncPipeStream::close
    ppc,            \* where each peer's pump stands
    pending         \* the payload a then returned, not yet passed to send

crypto_vars == <<sealing_key, opening_key, sealing_seq, opening_seq>>
stream_vars == <<rxq, write_shutdown, read_shutdown>>
sctp_vars == <<buf, rx_closed, connection, conn_changed>>
close_vars == <<closes, shutdown_calls, close_sleeps>>
log_vars == <<sent, delivered>>
session_vars ==
    <<basekey, dialer, crypto_vars, stream_vars, sctp_vars, cpc, err,
      log_vars, close_vars, ice_events>>

pump_vars == <<rx_shut, in_read, output, out_shutdowns, ppc, pending>>

VARIABLES
    psk,            \* the pre-shared key each peer was started with
    channel,        \* the channel name connect derived, None before that
    joined,         \* the WebSocket to the server is open
    hello,          \* the first frame the server sent on the WebSocket
    inbox,          \* frames the server relayed, not yet read by the peer
    wire,           \* texts the peer sent, not yet relayed by the server
    kpc,            \* where connect() stands on each peer
    my_private_key, \* the ephemeral X25519 private key of agree
    peer_public_key, peer_sig,    \* what agree received, decoded
    key_material,   \* what agree returned, None before that
    result,         \* how connect() ended, "" while it runs
    sig_sent,       \* every text the peer sent on the signalling channel
    rx_texts,       \* number of texts the signalling channel returned
    candidates_tx,  \* local candidates sent to the far end
    remote_candidates,  \* candidates of the far end given to the agent
    ice_rx_shut     \* CandidateExchange.rx_shut

connect_vars ==
    <<psk, channel, joined, hello, inbox, wire, kpc, my_private_key,
      peer_public_key, peer_sig, key_material, result, sig_sent, rx_texts,
      candidates_tx, remote_candidates, ice_rx_shut>>

\* the session state other than the role
session_rest ==
    <<basekey, crypto_vars, stream_vars, sctp_vars, cpc, err, log_vars,
      close_vars, ice_events>>

VARIABLES
    now,            \* the clock, in seconds
    last_ping,      \* Websocket.last_ping
    last_pong,      \* Websocket.last_pong
    ws_pings,       \* Ping frames the Websocket sent
    ws_pongs,       \* payloads of the Pong frames the Websocket sent
    ws_waits        \* number of times Websocket::wait returned Ok

timer_vars == <<now, last_ping, last_pong, ws_pings, ws_pongs, ws_waits>>

VARIABLES
    candidate_rx,   \* CandidateExchange.candidate_rx, the queue of the channel
    wait_pending,   \* a CandidateExchange::wait future is pending
    ce_value,       \* the value wait returned, not yet given to then
    gathered,       \* candidates the agent handed to on_candidate
    relayed,        \* frames the server sent after the handshake
    lost_races      \* pending waits dropped while an event was ready

exchange_vars ==
    <<candidate_rx, wait_pending, ce_value, gathered, relayed, lost_races>>

VARIABLES
    ws_output,      \* what the last Websocket::then returned, None before
    ws_closed       \* the server closed the WebSocket

ws_vars == <<ws_output, ws_closed>>

VARIABLES
    ice_tx_shut,    \* CandidateExchange.tx_shut
    ice_closes,     \* calls of CandidateExchange::close
    callback_panics \* on_candidate callbacks whose send(..).unwrap() panicked

VARIABLES
    buffered,       \* stream.buffered_amount(), in bytes
    fpc,            \* where Sctp::send or Sctp::close stands
    call_writes,    \* write_sctp calls made by the current send call
    last_write,     \* the last message given to write_sctp, None before
    close_elapsed   \* milliseconds since Sctp::close took max_wait

flow_vars == <<buffered, fpc, call_writes, last_write, close_elapsed>>

VARIABLES
    seq_counter,    \* Sequential.0 of one nonce sequence
    seq_nonces,     \* the nonces its advance calls returned, in order
    seq_panicked    \* an advance call panicked

seq_vars == <<seq_counter, seq_nonces, seq_panicked>>

VARIABLES
    conv_layer,     \* the error type the error value has now
    conv_error,     \* the error value
    conv_origin     \* the kind the signalling layer raised

conv_vars == <<conv_layer, conv_error, conv_origin>>

shut_vars ==
    <<ice_tx_shut, ice_closes, callback_panics, flow_vars, seq_vars, conv_vars>>

vars ==
    <<session_vars, pump_vars, connect_vars, timer_vars, exchange_vars,
      ws_vars, shut_vars>>

\* Sctp::rx_closed / Chacha20Stream::rx_closed
RxClosed(p) == rx_closed[p] \/ connection_closed(connection[p])

----------------------------------------------------------------------------
(* Operations of the layers, shared by the client and the pump *)

\* Sctp::new writes the probe; Chacha20Stream::new derives keys and seeds
NewConnection ==
    LET c == [p \in Peers |-> Chacha20New(basekey[p], dialer[p])] IN
    /\ rxq' = [p \in Peers |-> Append(rxq[p], ProbeMsg)]
    /\ sealing_key' = [p \in Peers |-> c[p].sealing_key]
    /\ sealing_seq' = [p \in Peers |-> c[p].sealing_seq]
    /\ opening_key' = [p \in Peers |-> c[p].opening_key]
    /\ opening_seq' = [p \in Peers |-> c[p].opening_seq]

\* Sctp::send: one Binary message per call, carried in order to the far end
SctpWrite(p, data) == [rxq EXCEPT ![Other(p)] = Append(@, Msg("Binary", data))]

\* Chacha20Stream::send: seal with the next sealing nonce, hand down
ChachaSend(p, d) ==
    LET ct == Seal(sealing_key[p], AdvanceNonce(sealing_seq[p]), d) IN
    /\ sealing_seq' = [sealing_seq EXCEPT ![p] = AdvanceNext(@)]
    /\ rxq' = SctpWrite(p, ct)
    /\ sent' = [sent EXCEPT ![p] = Append(@, d)]

\* a then that does not look at the PPID
SctpThenOutputAnyPpid(v, b) ==
    IF v.tag = "Left" THEN None
    ELSE IF v.n = 0 THEN None
    ELSE Some(b)

\* Sctp::then: what a value of wait yields, with the bytes read into buf
SctpThenOutput(v, b) ==
    IF v.tag = "Left" THEN None
    ELSE IF v.n = 0 THEN None
    ELSE IF v.ppid # "Binary" THEN None
    ELSE Some(b)

SctpThenSetsClosed(v) == v.tag = "Right" /\ v.n = 0

\* Chacha20Stream::then: open what the layer below returned
ChachaThenFails(p, below) ==
    /\ below # None
    /\ ~OpenOk(opening_key[p], AdvanceNonce(opening_seq[p]), below[1])

ChachaThenOutput(p, below) ==
    IF below = None \/ ChachaThenFails(p, below) THEN None
    ELSE Some(below[1].pt)

\* the output of wait followed by then on the Connection, for the value v
\* and the bytes b that wait produced
RecvOutput(p, v, b) == ChachaThenOutput(p, SctpThenOutput(v, b))
RecvFails(p, v, b) == ChachaThenFails(p, SctpThenOutput(v, b))

ThenEffects(p, v, b) ==
    /\ rx_closed' = [rx_closed EXCEPT ![p] = @ \/ SctpThenSetsClosed(v)]
    /\ opening_seq' =
         [opening_seq EXCEPT ![p] =
            IF SctpThenOutput(v, b) # None THEN AdvanceNext(@) ELSE @]
    /\ delivered' =
         [delivered EXCEPT ![p] =
            IF RecvOutput(p, v, b) # None THEN Append(@, RecvOutput(p, v, b)[1])
            ELSE @]
    /\ err' = [err EXCEPT ![p] = IF RecvFails(p, v, b) THEN "CryptoError" ELSE @]

\* Sctp::wait, first branch of the select: connection.changed(); then
WaitChanged(p) ==
    /\ conn_changed[p]
    /\ conn_changed' = [conn_changed EXCEPT ![p] = FALSE]
    /\ UNCHANGED <<buf, rxq>>

\* Sctp::wait, second branch: stream.read_sctp into buf.  A stream whose
\* read half is shut, or that the far end has reset, reads zero bytes.
ReadReady(p) == read_shutdown[p] \/ rxq[p] # <<>>
ReadMsg(p) == IF read_shutdown[p] THEN EosMsg ELSE Head(rxq[p])
ReadValue(p) == Right(ReadMsg(p).data.len, ReadMsg(p).ppid)
ReadBuf(p) == IF ReadMsg(p) = EosMsg THEN buf[p] ELSE ReadMsg(p).data

WaitRead(p) ==
    /\ ReadReady(p)
    /\ buf' = [buf EXCEPT ![p] = ReadBuf(p)]
    /\ rxq' = [rxq EXCEPT ![p] = IF ReadMsg(p) = EosMsg THEN @ ELSE Tail(@)]
    /\ UNCHANGED conn_changed

\* one wait / then cycle on the Connection (WaitThenDynExt::recv)
Recv(p) ==
    \/ WaitChanged(p) /\ ThenEffects(p, Left(connection[p]), buf[p])
    \/ WaitRead(p) /\ ThenEffects(p, ReadValue(p), ReadBuf(p))

\* Sctp::close: the drain loop ends when nothing is buffered or when the 5 s
\* ceiling has passed, so it always ends; then the 100 ms sleep and
\* stream.shutdown(Both).  The library resets the stream unless both halves
\* are shut already; the far end reads the reset after the data before it.
SctpClose(p) ==
    /\ close_sleeps' = [close_sleeps EXCEPT ![p] = @ + 1]
    /\ shutdown_calls' = [shutdown_calls EXCEPT ![p] = @ + 1]
    /\ write_shutdown' = [write_shutdown EXCEPT ![p] = TRUE]
    /\ read_shutdown' = [read_shutdown EXCEPT ![p] = TRUE]
    /\ rxq' = [rxq EXCEPT ![Other(p)] =
                 IF write_shutdown[p] /\ read_shutdown[p] THEN @
                 ELSE Append(@, EosMsg)]
    /\ closes' = [closes EXCEPT ![p] = @ + 1]

----------------------------------------------------------------------------
(* Spec: a client of the Connection interface *)

\* the ICE connection is up and nothing has been constructed on top of it
InitStreams ==
    /\ sealing_key = [p \in Peers |-> NoKey]
    /\ opening_key = [p \in Peers |-> NoKey]
    /\ sealing_seq = [p \in Peers |-> 0]
    /\ opening_seq = [p \in Peers |-> 0]
    /\ rxq = [p \in Peers |-> <<>>]
    /\ write_shutdown = [p \in Peers |-> FALSE]
    /\ read_shutdown = [p \in Peers |-> FALSE]
    /\ buf = [p \in Peers |-> NoBytes]
    /\ rx_closed = [p \in Peers |-> FALSE]
    /\ connection = [p \in Peers |-> "Connected"]
    /\ conn_changed = [p \in Peers |-> TRUE]
    /\ cpc = [p \in Peers |-> "new"]
    /\ err = [p \in Peers |-> ""]
    /\ sent = [p \in Peers |-> <<>>]
    /\ delivered = [p \in Peers |-> <<>>]
    /\ closes = [p \in Peers |-> 0]
    /\ shutdown_calls = [p \in Peers |-> 0]
    /\ close_sleeps = [p \in Peers |-> 0]
    /\ ice_events = 0

InitSession ==
    /\ \E km \in KeyMaterials : basekey = [p \in Peers |-> km]
    /\ dialer = [p \in Peers |-> p = "A"]
    /\ InitStreams

\* the pump is not running
InitNoPump ==
    /\ rx_shut = [p \in Peers |-> FALSE]
    /\ in_read = [p \in Peers |-> <<>>]
    /\ output = [p \in Peers |-> <<>>]
    /\ out_shutdowns = [p \in Peers |-> 0]
    /\ ppc = [p \in Peers |-> "off"]
    /\ pending = [p \in Peers |-> None]

\* connect() has returned on both peers
InitNoConnect ==
    /\ psk = [p \in Peers |-> "p1"]
    /\ channel = [p \in Peers |-> None]
    /\ joined = [p \in Peers |-> FALSE]
    /\ hello = [p \in Peers |-> None]
    /\ inbox = [p \in Peers |-> <<>>]
    /\ wire = [p \in Peers |-> <<>>]
    /\ kpc = [p \in Peers |-> "done"]
    /\ my_private_key = [p \in Peers |-> 0]
    /\ peer_public_key = [p \in Peers |-> None]
    /\ peer_sig = [p \in Peers |-> None]
    /\ key_material = [p \in Peers |-> None]
    /\ result = [p \in Peers |-> "Ok"]
    /\ sig_sent = [p \in Peers |-> <<>>]
    /\ rx_texts = [p \in Peers |-> 0]
    /\ candidates_tx = [p \in Peers |-> 0]
    /\ remote_candidates = [p \in Peers |-> 0]
    /\ ice_rx_shut = [p \in Peers |-> FALSE]

\* Websocket::new at the start of the clock
InitTimers ==
    /\ now = 0
    /\ last_ping = [p \in Peers |-> 0]
    /\ last_pong = [p \in Peers |-> 0]
    /\ ws_pings = [p \in Peers |-> 0]
    /\ ws_pongs = [p \in Peers |-> <<>>]
    /\ ws_waits = [p \in Peers |-> 0]
    /\ ws_output = [p \in Peers |-> None]
    /\ ws_closed = [p \in Peers |-> FALSE]

\* the buffered amount of the streams is not followed
InitNoSeq ==
    /\ seq_counter = 0
    /\ seq_nonces = <<>>
    /\ seq_panicked = FALSE

InitNoConv ==
    /\ conv_layer = ""
    /\ conv_error = <<>>
    /\ conv_origin = ""

InitNoFlow ==
    /\ buffered = [p \in Peers |-> 0]
    /\ fpc = [p \in Peers |-> "off"]
    /\ call_writes = [p \in Peers |-> 0]
    /\ last_write = [p \in Peers |-> None]
    /\ close_elapsed = [p \in Peers |-> 0]

\* CandidateExchange::new: the channel is empty, no wait was issued
InitChannel ==
    /\ ice_tx_shut = [p \in Peers |-> FALSE]
    /\ ice_closes = [p \in Peers |-> 0]
    /\ callback_panics = [p \in Peers |-> 0]
    /\ candidate_rx = [p \in Peers |-> <<>>]
    /\ wait_pending = [p \in Peers |-> FALSE]
    /\ ce_value = [p \in Peers |-> None]
    /\ gathered = [p \in Peers |-> 0]
    /\ relayed = [p \in Peers |-> 0]
    /\ lost_races = [p \in Peers |-> 0]

InitExchange == InitChannel /\ InitNoFlow /\ InitNoSeq /\ InitNoConv

Init ==
    InitSession /\ InitNoPump /\ InitNoConnect /\ InitTimers /\ InitExchange

TotalSends == Len(sent["A"]) + Len(sent["B"])
TotalCloses == closes["A"] + closes["B"]

\* connect() on both sides: Sctp::new, then Chacha20Stream::new
Construct ==
    /\ \A p \in Peers : cpc[p] = "new"
    /\ NewConnection
    /\ cpc' = [p \in Peers |-> "idle"]
    /\ UNCHANGED <<basekey, dialer, write_shutdown, read_shutdown,
                   sctp_vars, err, log_vars, close_vars, ice_events,
                   pump_vars>>
    /\ UNCHANGED connect_vars
    /\ UNCHANGED <<timer_vars, exchange_vars, ws_vars, shut_vars>>

ClientSend(p) ==
    /\ cpc[p] = "idle"
    /\ closes[p] = 0
    /\ TotalSends < MaxSends
    /\ \E d \in Payloads : ChachaSend(p, d)
    /\ UNCHANGED <<basekey, dialer, sealing_key, opening_key, opening_seq,
                   write_shutdown, read_shutdown, sctp_vars, cpc, err,
                   delivered, close_vars, ice_events,
                   pump_vars>>
    /\ UNCHANGED connect_vars
    /\ UNCHANGED <<timer_vars, exchange_vars, ws_vars, shut_vars>>

ClientRecv(p) ==
    /\ cpc[p] = "idle"
    /\ Recv(p)
    /\ cpc' = [cpc EXCEPT ![p] = IF err'[p] # "" THEN "err" ELSE "idle"]
    /\ UNCHANGED <<basekey, dialer, sealing_key, opening_key, sealing_seq,
                   write_shutdown, read_shutdown, connection, sent,
                   close_vars, ice_events,
                   pump_vars>>
    /\ UNCHANGED connect_vars
    /\ UNCHANGED <<timer_vars, exchange_vars, ws_vars, shut_vars>>

ClientClose(p) ==
    /\ cpc[p] = "idle"
    /\ TotalCloses < MaxCloses
    /\ SctpClose(p)
    /\ UNCHANGED <<basekey, dialer, crypto_vars, sctp_vars, cpc, err,
                   log_vars, ice_events,
                   pump_vars>>
    /\ UNCHANGED connect_vars
    /\ UNCHANGED <<timer_vars, exchange_vars, ws_vars, shut_vars>>

\* the ICE agent publishes a connection-state change on the watcher
IceStateChange(p) ==
    /\ cpc[p] # "new"
    /\ ice_events < MaxIceEvents
    /\ \E s \in IceTransitions(connection[p]) :
         connection' = [connection EXCEPT ![p] = s]
    /\ conn_changed' = [conn_changed EXCEPT ![p] = TRUE]
    /\ ice_events' = ice_events + 1
    /\ UNCHANGED <<basekey, dialer, crypto_vars, stream_vars, buf, rx_closed,
                   cpc, err, log_vars, close_vars,
                   pump_vars>>
    /\ UNCHANGED connect_vars
    /\ UNCHANGED <<timer_vars, exchange_vars, ws_vars, shut_vars>>

Next ==
    \/ Construct
    \/ \E p \in Peers :
        \/ ClientSend(p)
        \/ ClientRecv(p)
        \/ ClientClose(p)
        \/ IceStateChange(p)

Spec == Init /\ [][Next]_vars

----------------------------------------------------------------------------
(* SpecKeys: Chacha20Stream::new called with any key material and any role
   on each side, then records sealed on one side and opened on the other *)

InitKeys ==
    /\ basekey \in [Peers -> KeyMaterials]
    /\ dialer \in [Peers -> BOOLEAN]
    /\ InitStreams
    /\ InitNoPump
    /\ InitNoConnect
    /\ InitTimers
    /\ InitExchange

\* Chacha20Stream::new on one peer
StreamNew(p) ==
    /\ cpc[p] = "new"
    /\ LET c == Chacha20New(basekey[p], dialer[p]) IN
         /\ sealing_key' = [sealing_key EXCEPT ![p] = c.sealing_key]
         /\ sealing_seq' = [sealing_seq EXCEPT ![p] = c.sealing_seq]
         /\ opening_key' = [opening_key EXCEPT ![p] = c.opening_key]
         /\ opening_seq' = [opening_seq EXCEPT ![p] = c.opening_seq]
    /\ cpc' = [cpc EXCEPT ![p] = "idle"]
    /\ UNCHANGED <<basekey, dialer, stream_vars, sctp_vars, err, log_vars,
                   close_vars, ice_events, pump_vars, connect_vars>>
    /\ UNCHANGED <<timer_vars, exchange_vars, ws_vars, shut_vars>>

\* Chacha20Stream::send
StreamSend(p) ==
    /\ cpc[p] = "idle"
    /\ TotalSends < MaxSends
    /\ \E d \in Payloads : ChachaSend(p, d)
    /\ UNCHANGED <<basekey, dialer, sealing_key, opening_key, opening_seq,
                   write_shutdown, read_shutdown, sctp_vars, cpc, err,
                   delivered, close_vars, ice_events, pump_vars, connect_vars>>
    /\ UNCHANGED <<timer_vars, exchange_vars, ws_vars, shut_vars>>

\* Chacha20Stream::wait returning a read, then Chacha20Stream::then
StreamRecv(p) ==
    /\ cpc[p] = "idle"
    /\ WaitRead(p)
    /\ ThenEffects(p, ReadValue(p), ReadBuf(p))
    /\ cpc' = [cpc EXCEPT ![p] = IF err'[p] # "" THEN "err" ELSE "idle"]
    /\ UNCHANGED <<basekey, dialer, sealing_key, opening_key, sealing_seq,
                   write_shutdown, read_shutdown, connection, sent,
                   close_vars, ice_events, pump_vars, connect_vars>>
    /\ UNCHANGED <<timer_vars, exchange_vars, ws_vars, shut_vars>>

NextKeys ==
    \E p \in Peers :
        \/ StreamNew(p)
        \/ StreamSend(p)
        \/ StreamRecv(p)

SpecKeys == InitKeys /\ [][NextKeys]_vars

----------------------------------------------------------------------------
(* SpecPump: icepipe-cat main2, the pump between peer_stream and
   local_stream (an AsyncPipeStream) *)

\* what a read of the local input returns besides end of file
LocalChunks == {<<7>>, <<8>>}

TotalInput == Len(in_read["A"]) + Len(in_read["B"])

\* the state connect() leaves: streams set up, probes written, keys derived
InitConnected ==
    /\ \E km \in KeyMaterials : basekey = [p \in Peers |-> km]
    /\ dialer = [p \in Peers |-> p = "A"]
    /\ sealing_key = [p \in Peers |-> Chacha20New(basekey[p], dialer[p]).sealing_key]
    /\ opening_key = [p \in Peers |-> Chacha20New(basekey[p], dialer[p]).opening_key]
    /\ sealing_seq = [p \in Peers |-> Chacha20New(basekey[p], dialer[p]).sealing_seq]
    /\ opening_seq = [p \in Peers |-> Chacha20New(basekey[p], dialer[p]).opening_seq]
    /\ rxq = [p \in Peers |-> <<ProbeMsg>>]
    /\ write_shutdown = [p \in Peers |-> FALSE]
    /\ read_shutdown = [p \in Peers |-> FALSE]
    /\ buf = [p \in Peers |-> NoBytes]
    /\ rx_closed = [p \in Peers |-> FALSE]
    /\ connection = [p \in Peers |-> "Connected"]
    /\ conn_changed = [p \in Peers |-> TRUE]
    /\ cpc = [p \in Peers |-> "pump"]
    /\ err = [p \in Peers |-> ""]
    /\ sent = [p \in Peers |-> <<>>]
    /\ delivered = [p \in Peers |-> <<>>]
    /\ closes = [p \in Peers |-> 0]
    /\ shutdown_calls = [p \in Peers |-> 0]
    /\ close_sleeps = [p \in Peers |-> 0]
    /\ ice_events = 0

InitPump ==
    /\ InitConnected
    /\ InitNoConnect
    /\ InitTimers
    /\ InitExchange
    /\ rx_shut = [p \in Peers |-> FALSE]
    /\ in_read = [p \in Peers |-> <<>>]
    /\ output = [p \in Peers |-> <<>>]
    /\ out_shutdowns = [p \in Peers |-> 0]
    /\ ppc = [p \in Peers |-> "loop"]
    /\ pending = [p \in Peers |-> None]

PumpLoopGuardLocalOnly(p) == ~rx_shut[p]

\* while !peer_stream.rx_closed() && !local_stream.rx_closed()
PumpLoopGuard(p) == ~RxClosed(p) /\ ~rx_shut[p]

\* where the peer arm goes with the output of peer_stream.then
PeerArmNextDropping(out) == "loop"

PeerArmNext(out) == IF out # None THEN "local_send" ELSE "loop"

\* where the local arm goes with the output of local_stream.then
LocalArmNext(out) == IF out # None THEN "peer_send" ELSE "loop"

\* select arm: value = peer_stream.wait(); recv = peer_stream.then(value)?
PumpPeerArm(p) ==
    /\ ppc[p] = "loop"
    /\ PumpLoopGuard(p)
    /\ Recv(p)
    /\ LET out == IF Len(delivered'[p]) > Len(delivered[p])
                  THEN Some(delivered'[p][Len(delivered'[p])]) ELSE None IN
       /\ pending' = [pending EXCEPT ![p] = out]
       /\ ppc' = [ppc EXCEPT ![p] = IF err'[p] # "" THEN "err" ELSE PeerArmNext(out)]
    /\ UNCHANGED <<basekey, dialer, sealing_key, opening_key, sealing_seq,
                   write_shutdown, read_shutdown, connection, cpc, sent,
                   close_vars, ice_events, rx_shut, in_read, output,
                   out_shutdowns>>
    /\ UNCHANGED connect_vars
    /\ UNCHANGED <<timer_vars, exchange_vars, ws_vars, shut_vars>>

\* AsyncPipeStream::send: write_all, flush
LocalWrite(p, data) == Append(output[p], data)

\* local_stream.send(&data) with the payload of the peer arm
PumpLocalSend(p) ==
    /\ ppc[p] = "local_send"
    /\ output' = [output EXCEPT ![p] = LocalWrite(p, pending[p][1])]
    /\ pending' = [pending EXCEPT ![p] = None]
    /\ ppc' = [ppc EXCEPT ![p] = "loop"]
    /\ UNCHANGED <<session_vars, rx_shut, in_read, out_shutdowns>>
    /\ UNCHANGED connect_vars
    /\ UNCHANGED <<timer_vars, exchange_vars, ws_vars, shut_vars>>

\* select arm: value = local_stream.wait(); recv = local_stream.then(value)?
\* AsyncPipeStream::wait reads n bytes; then: n = 0 sets rx_shut and yields
\* None, otherwise the n bytes read
PumpLocalArm(p) ==
    /\ ppc[p] = "loop"
    /\ PumpLoopGuard(p)
    /\ \/ /\ rx_shut' = [rx_shut EXCEPT ![p] = TRUE]
          /\ ppc' = [ppc EXCEPT ![p] = LocalArmNext(None)]
          /\ UNCHANGED <<in_read, pending>>
       \/ /\ TotalInput < MaxInput
          /\ \E chunk \in LocalChunks :
               /\ in_read' = [in_read EXCEPT ![p] = Append(@, chunk)]
               /\ pending' = [pending EXCEPT ![p] = Some(chunk)]
               /\ ppc' = [ppc EXCEPT ![p] = LocalArmNext(Some(chunk))]
          /\ UNCHANGED rx_shut
    /\ UNCHANGED <<session_vars, output, out_shutdowns>>
    /\ UNCHANGED connect_vars
    /\ UNCHANGED <<timer_vars, exchange_vars, ws_vars, shut_vars>>

\* peer_stream.send(&data) with the payload of the local arm
PumpPeerSend(p) ==
    /\ ppc[p] = "peer_send"
    /\ ChachaSend(p, pending[p][1])
    /\ pending' = [pending EXCEPT ![p] = None]
    /\ ppc' = [ppc EXCEPT ![p] = "loop"]
    /\ UNCHANGED <<basekey, dialer, sealing_key, opening_key, opening_seq,
                   write_shutdown, read_shutdown, sctp_vars, cpc, err,
                   delivered, close_vars, ice_events, rx_shut, in_read,
                   output, out_shutdowns>>
    /\ UNCHANGED connect_vars
    /\ UNCHANGED <<timer_vars, exchange_vars, ws_vars, shut_vars>>

\* the loop condition is false: peer_stream.close().await?
PumpClosePeer(p) ==
    /\ ppc[p] = "loop"
    /\ ~PumpLoopGuard(p)
    /\ SctpClose(p)
    /\ ppc' = [ppc EXCEPT ![p] = "close_local"]
    /\ UNCHANGED <<basekey, dialer, crypto_vars, sctp_vars, cpc, err,
                   log_vars, ice_events, rx_shut, in_read, output, pending>>
    /\ UNCHANGED out_shutdowns
    /\ UNCHANGED connect_vars
    /\ UNCHANGED <<timer_vars, exchange_vars, ws_vars, shut_vars>>

\* local_stream.close().await?: AsyncPipeStream::close shuts the output
PumpCloseLocal(p) ==
    /\ ppc[p] = "close_local"
    /\ out_shutdowns' = [out_shutdowns EXCEPT ![p] = @ + 1]
    /\ ppc' = [ppc EXCEPT ![p] = "done"]
    /\ UNCHANGED <<session_vars, rx_shut, in_read, output, pending>>
    /\ UNCHANGED connect_vars
    /\ UNCHANGED <<timer_vars, exchange_vars, ws_vars, shut_vars>>

\* the ICE agent publishes a connection-state change on the watcher
PumpIceStateChange(p) ==
    /\ ice_events < MaxIceEvents
    /\ \E s \in IceTransitions(connection[p]) :
         connection' = [connection EXCEPT ![p] = s]
    /\ conn_changed' = [conn_changed EXCEPT ![p] = TRUE]
    /\ ice_events' = ice_events + 1
    /\ UNCHANGED <<basekey, dialer, crypto_vars, stream_vars, buf, rx_closed,
                   cpc, err, log_vars, close_vars, pump_vars>>
    /\ UNCHANGED connect_vars
    /\ UNCHANGED <<timer_vars, exchange_vars, ws_vars, shut_vars>>

NextPump ==
    \E p \in Peers :
        \/ PumpPeerArm(p)
        \/ PumpLocalSend(p)
        \/ PumpLocalArm(p)
        \/ PumpPeerSend(p)
        \/ PumpClosePeer(p)
        \/ PumpCloseLocal(p)
        \/ PumpIceStateChange(p)

SpecPump == InitPump /\ [][NextPump]_vars

----------------------------------------------------------------------------
(* FairSpecPumpClean: the pump while the ICE connection stays up.  The
   runtime polls every future that is ready, so each arm and each call the
   pump makes goes on once it can; nothing makes the local input deliver *)

NextPumpClean ==
    \E p \in Peers :
        \/ PumpPeerArm(p)
        \/ PumpLocalSend(p)
        \/ PumpLocalArm(p)
        \/ PumpPeerSend(p)
        \/ PumpClosePeer(p)
        \/ PumpCloseLocal(p)

SpecPumpClean == InitPump /\ [][NextPumpClean]_vars

FairSpecPumpClean ==
    /\ SpecPumpClean
    /\ \A p \in Peers :
         /\ WF_vars(PumpPeerArm(p))
         /\ WF_vars(PumpLocalSend(p))
         /\ WF_vars(PumpPeerSend(p))
         /\ WF_vars(PumpClosePeer(p))
         /\ WF_vars(PumpCloseLocal(p))

----------------------------------------------------------------------------
(* SpecPumpErr: the pump, with a local input whose read may fail *)

\* select arm: value = local_stream.wait() is Err; `value?` returns it from
\* main2
PumpLocalReadError(p) ==
    /\ ppc[p] = "loop"
    /\ PumpLoopGuard(p)
    /\ err' = [err EXCEPT ![p] = "Io"]
    /\ ppc' = [ppc EXCEPT ![p] = "err"]
    /\ UNCHANGED <<basekey, dialer, crypto_vars, stream_vars, sctp_vars, cpc,
                   log_vars, close_vars, ice_events, rx_shut, in_read, output,
                   out_shutdowns, pending, connect_vars>>
    /\ UNCHANGED <<timer_vars, exchange_vars, ws_vars, shut_vars>>

NextPumpErr ==
    \/ NextPump
    \/ \E p \in Peers : PumpLocalReadError(p)

SpecPumpErr == InitPump /\ [][NextPumpErr]_vars

----------------------------------------------------------------------------
(* SpecWatch: a connected Sctp whose owner keeps receiving while the ICE
   agent publishes connection-state changes on the watcher *)

\* ICE connection-state changes published while the owner receives
MaxWatchEvents == 2

InitWatch ==
    InitConnected /\ InitNoPump /\ InitNoConnect /\ InitTimers /\ InitExchange

\* on_connection_state_change: connection_send.send(state)
WatcherPublish(p) ==
    /\ ice_events < MaxWatchEvents
    /\ \E s \in IceTransitions(connection[p]) :
         connection' = [connection EXCEPT ![p] = s]
    /\ conn_changed' = [conn_changed EXCEPT ![p] = TRUE]
    /\ ice_events' = ice_events + 1
    /\ UNCHANGED <<basekey, dialer, crypto_vars, stream_vars, buf, rx_closed,
                   cpc, err, log_vars, close_vars, pump_vars, connect_vars>>
    /\ UNCHANGED <<timer_vars, exchange_vars, ws_vars, shut_vars>>

\* one wait / then cycle of the owner
WatchRecv(p) ==
    /\ err[p] = ""
    /\ Recv(p)
    /\ UNCHANGED <<basekey, dialer, sealing_key, opening_key, sealing_seq,
                   write_shutdown, read_shutdown, connection, cpc, sent,
                   close_vars, ice_events, pump_vars, connect_vars>>
    /\ UNCHANGED <<timer_vars, exchange_vars, ws_vars, shut_vars>>

NextWatch ==
    \E p \in Peers :
        \/ WatcherPublish(p)
        \/ WatchRecv(p)

SpecWatch == InitWatch /\ [][NextWatch]_vars

----------------------------------------------------------------------------
(* agreement.rs, ws.rs, ice.rs: what connect() exchanges on the signalling
   channel *)

\* pre-shared keys the peers may be started with
PSKs == {"p1", "p2"}
\* ephemeral private keys SystemRandom may generate
PrivateKeys == {1, 2}

\* a byte string: a number and the derivation that produced it
Raw(n, k) == [n |-> n, k |-> k]

\* a text message: a literal string, or the base64 text of a byte string
StrText(s) == [b64 |-> FALSE, s |-> s, bytes |-> Raw(0, <<>>)]
\* BASE64_STANDARD.encode / decode: the literals of the protocol are not
\* valid padded base64, the encoded texts are
B64Encode(bytes) == [b64 |-> TRUE, s |-> "", bytes |-> bytes]
B64DecodeOk(text) == text.b64
B64Decode(text) == text.bytes

PROTOCOL_START == StrText("Icepipe")
PROTOCOL_CLOSE == StrText("Close")
\* a candidate as Candidate::marshal writes it
CandidateText == StrText("candidate")

\* the i-th candidate an agent produces; the first one is CandidateText
CandidateNames == <<"candidate", "candidate 2", "candidate 3", "candidate 4">>
LocalCandidate(i) == StrText(CandidateNames[i])
CandidateTexts == {LocalCandidate(i) : i \in 1..Len(CandidateNames)}

\* unmarshal_candidate returns Ok
Unmarshals(text) == text \in CandidateTexts

Frame(ftype, text) == [ftype |-> ftype, text |-> text]
\* what the server may send first on a WebSocket
FirstFrames ==
    {Frame("Text", StrText("DIALER")), Frame("Text", StrText("LISTENER")),
     Frame("Text", StrText("HELLO")), Frame("Binary", StrText(""))}

\* PskAuthentication::derive_len: PBKDF2-HMAC-SHA512 over the salt
\* "<role>:<salt>", modelled as a perfect pseudo-random function
derive_len_ignoring_key(base, role, salt) == <<"pbkdf2", "", RoleInfo(role), salt>>

derive_len(base, role, salt) == <<"pbkdf2", base, RoleInfo(role), salt>>

\* PskAuthentication::derive_text: URL-safe base64 of the derived bytes
derive_text(base, role, salt) == <<"b64url">> \o derive_len(base, role, salt)

ChannelNameShared(base_password) == derive_text("", TRUE, "channel")

\* connect: the channel name of a base password
ChannelName(base_password) == derive_text(base_password, TRUE, "channel")

\* PskAuthentication::key, for an authentication built with (base, role)
key_own_role(base, role, purpose) == derive_len(base, role, "keymaterial_check")

key(base, role, purpose) ==
    derive_len(base, IF purpose = "Signing" THEN role ELSE ~role,
               "keymaterial_check")

\* hmac::sign
Hmac(k, data) == Raw(data.n, <<"hmac">> \o k \o data.k)

\* a signature made with the key of the opposite role
sign_peer_role(base, role, data) == Hmac(key(base, role, "Verifying"), data)

\* PskAuthentication::sign
sign(base, role, data) == Hmac(key(base, role, "Signing"), data)

check_peer_accepting(base, role, data, signature) == TRUE

\* PskAuthentication::check_peer: hmac::verify
check_peer(base, role, data, signature) ==
    Hmac(key(base, role, "Verifying"), data) = signature

\* EphemeralPrivateKey::compute_public_key
compute_public_key(sk) == Raw(sk, <<"x25519">>)

\* agreement::agree_ephemeral: X25519 of the own private key and the far
\* end's public key, the same value on both sides
agree_ephemeral(sk, pk) ==
    Some(IF sk <= pk.n THEN <<sk, pk.n>> ELSE <<pk.n, sk>>)

\* the order in which agree sends and receives
AgreeSequenceRecvFirst == <<"recv_pk", "send_pk", "send_sig", "recv_sig">>

AgreeSequence == <<"send_pk", "send_sig", "recv_pk", "recv_sig">>

\* where agree goes after a step; after the last one IceAgent::new follows
AfterAgreeStep(step) ==
    LET i == CHOOSE j \in 1..Len(AgreeSequence) : AgreeSequence[j] = step IN
    IF i = Len(AgreeSequence) THEN "ice_new" ELSE AgreeSequence[i + 1]

\* Websocket::send: a text frame to the server
WsSend(p, text) ==
    /\ wire' = [wire EXCEPT ![p] = Append(@, text)]
    /\ sig_sent' = [sig_sent EXCEPT ![p] = Append(@, text)]

\* signalling.wait then signalling.then returning Some(text): the next text
\* frame of the WebSocket
RecvReadyAnyFrame(p) == inbox[p] # <<>>
RecvReady(p) == inbox[p] # <<>> /\ Head(inbox[p]).ftype = "Text"
RecvText(p) == Head(inbox[p]).text
RecvEffects(p) ==
    /\ inbox' = [inbox EXCEPT ![p] = Tail(@)]
    /\ rx_texts' = [rx_texts EXCEPT ![p] = @ + 1]

\* connect() returns Err
Fail(p, e) ==
    /\ result' = [result EXCEPT ![p] = e]
    /\ kpc' = [kpc EXCEPT ![p] = "failed"]

----------------------------------------------------------------------------
(* SpecConnect: connect() on two peers and the signalling server *)

InitConnect ==
    /\ InitSession
    /\ InitTimers
    /\ InitExchange
    /\ basekey["A"] = 1
    /\ InitNoPump
    /\ psk \in [Peers -> PSKs]
    /\ channel = [p \in Peers |-> None]
    /\ joined = [p \in Peers |-> FALSE]
    /\ hello = [p \in Peers |-> None]
    /\ inbox = [p \in Peers |-> <<>>]
    /\ wire = [p \in Peers |-> <<>>]
    /\ kpc = [p \in Peers |-> "start"]
    /\ my_private_key = [p \in Peers |-> 0]
    /\ peer_public_key = [p \in Peers |-> None]
    /\ peer_sig = [p \in Peers |-> None]
    /\ key_material = [p \in Peers |-> None]
    /\ result = [p \in Peers |-> ""]
    /\ sig_sent = [p \in Peers |-> <<>>]
    /\ rx_texts = [p \in Peers |-> 0]
    /\ candidates_tx = [p \in Peers |-> 0]
    /\ remote_candidates = [p \in Peers |-> 0]
    /\ ice_rx_shut = [p \in Peers |-> FALSE]

\* connect: channel = derive_text(base_password, true, "channel")
ConnectDeriveChannel(p) ==
    /\ kpc[p] = "start"
    /\ channel' = [channel EXCEPT ![p] = Some(ChannelName(psk[p]))]
    /\ kpc' = [kpc EXCEPT ![p] = "ws_connect"]
    /\ UNCHANGED <<dialer, session_rest, pump_vars, psk, joined, hello, inbox,
                   wire, my_private_key, peer_public_key, peer_sig,
                   key_material, result, sig_sent, rx_texts, candidates_tx,
                   remote_candidates, ice_rx_shut>>
    /\ UNCHANGED <<timer_vars, exchange_vars, ws_vars, shut_vars>>

\* Websocket::new: connect_async(url), the url ending in the channel name
WsConnect(p) ==
    /\ kpc[p] = "ws_connect"
    /\ joined' = [joined EXCEPT ![p] = TRUE]
    /\ kpc' = [kpc EXCEPT ![p] = "ws_new"]
    /\ UNCHANGED <<dialer, session_rest, pump_vars, psk, channel, hello, inbox,
                   wire, my_private_key, peer_public_key, peer_sig,
                   key_material, result, sig_sent, rx_texts, candidates_tx,
                   remote_candidates, ice_rx_shut>>
    /\ UNCHANGED <<timer_vars, exchange_vars, ws_vars, shut_vars>>

\* the server greets a WebSocket that joined a channel
ServerHello(p) ==
    /\ joined[p]
    /\ hello[p] = None
    /\ \E f \in FirstFrames : hello' = [hello EXCEPT ![p] = Some(f)]
    /\ UNCHANGED <<dialer, session_rest, pump_vars, psk, channel, joined,
                   inbox, wire, kpc, my_private_key, peer_public_key, peer_sig,
                   key_material, result, sig_sent, rx_texts, candidates_tx,
                   remote_candidates, ice_rx_shut>>
    /\ UNCHANGED <<timer_vars, exchange_vars, ws_vars, shut_vars>>

\* the server relays a text to the other WebSocket of the same channel
ServerRelay(p) ==
    /\ wire[p] # <<>>
    /\ joined[Other(p)]
    /\ hello[Other(p)] # None
    /\ channel[Other(p)] = channel[p]
    /\ inbox' = [inbox EXCEPT ![Other(p)] = Append(@, Frame("Text", Head(wire[p])))]
    /\ wire' = [wire EXCEPT ![p] = Tail(@)]
    /\ UNCHANGED <<dialer, session_rest, pump_vars, psk, channel, joined,
                   hello, kpc, my_private_key, peer_public_key, peer_sig,
                   key_material, result, sig_sent, rx_texts, candidates_tx,
                   remote_candidates, ice_rx_shut>>
    /\ UNCHANGED <<timer_vars, exchange_vars, ws_vars, shut_vars>>

\* Websocket::new: the first frame gives the role
WsNew(p) ==
    /\ kpc[p] = "ws_new"
    /\ hello[p] # None
    /\ IF hello[p][1].ftype = "Text"
       THEN /\ dialer' = [dialer EXCEPT ![p] = hello[p][1].text = StrText("DIALER")]
            /\ kpc' = [kpc EXCEPT ![p] = AgreeSequence[1]]
            /\ UNCHANGED result
       ELSE /\ Fail(p, "ProtocolError")
            /\ UNCHANGED dialer
    /\ UNCHANGED <<session_rest, pump_vars, psk, channel, joined, hello, inbox,
                   wire, my_private_key, peer_public_key, peer_sig,
                   key_material, sig_sent, rx_texts, candidates_tx,
                   remote_candidates, ice_rx_shut>>
    /\ UNCHANGED <<timer_vars, exchange_vars, ws_vars, shut_vars>>

\* agree: generate the ephemeral key, send the public key
AgreeSendPk(p) ==
    /\ kpc[p] = "send_pk"
    /\ \E sk \in PrivateKeys :
         /\ my_private_key' = [my_private_key EXCEPT ![p] = sk]
         /\ WsSend(p, B64Encode(compute_public_key(sk)))
    /\ kpc' = [kpc EXCEPT ![p] = AfterAgreeStep("send_pk")]
    /\ UNCHANGED <<dialer, session_rest, pump_vars, psk, channel, joined,
                   hello, inbox, peer_public_key, peer_sig, key_material,
                   result, rx_texts, candidates_tx, remote_candidates,
                   ice_rx_shut>>
    /\ UNCHANGED <<timer_vars, exchange_vars, ws_vars, shut_vars>>

\* agree: send the signature of the public key
AgreeSendSig(p) ==
    /\ kpc[p] = "send_sig"
    /\ WsSend(p, B64Encode(sign(psk[p], dialer[p],
                                compute_public_key(my_private_key[p]))))
    /\ kpc' = [kpc EXCEPT ![p] = AfterAgreeStep("send_sig")]
    /\ UNCHANGED <<dialer, session_rest, pump_vars, psk, channel, joined,
                   hello, inbox, my_private_key, peer_public_key, peer_sig,
                   key_material, result, rx_texts, candidates_tx,
                   remote_candidates, ice_rx_shut>>
    /\ UNCHANGED <<timer_vars, exchange_vars, ws_vars, shut_vars>>

\* agree: receive and decode the far end's public key
AgreeRecvPk(p) ==
    /\ kpc[p] = "recv_pk"
    /\ RecvReady(p)
    /\ RecvEffects(p)
    /\ IF B64DecodeOk(RecvText(p))
       THEN /\ peer_public_key' =
                 [peer_public_key EXCEPT ![p] = Some(B64Decode(RecvText(p)))]
            /\ kpc' = [kpc EXCEPT ![p] = AfterAgreeStep("recv_pk")]
            /\ UNCHANGED result
       ELSE /\ Fail(p, "Base64Error")
            /\ UNCHANGED peer_public_key
    /\ UNCHANGED <<dialer, session_rest, pump_vars, psk, channel, joined,
                   hello, wire, my_private_key, peer_sig, key_material,
                   sig_sent, candidates_tx, remote_candidates, ice_rx_shut>>
    /\ UNCHANGED <<timer_vars, exchange_vars, ws_vars, shut_vars>>

\* agree: receive and decode the signature, check_peer, agree_ephemeral
AgreeRecvSig(p) ==
    /\ kpc[p] = "recv_sig"
    /\ RecvReady(p)
    /\ RecvEffects(p)
    /\ IF ~B64DecodeOk(RecvText(p))
       THEN /\ Fail(p, "Base64Error")
            /\ UNCHANGED <<peer_sig, key_material>>
       ELSE /\ peer_sig' = [peer_sig EXCEPT ![p] = Some(B64Decode(RecvText(p)))]
            /\ IF check_peer(psk[p], dialer[p], peer_public_key[p][1],
                             B64Decode(RecvText(p)))
               THEN /\ key_material' =
                         [key_material EXCEPT ![p] =
                            agree_ephemeral(my_private_key[p],
                                            peer_public_key[p][1])]
                    /\ kpc' = [kpc EXCEPT ![p] = AfterAgreeStep("recv_sig")]
                    /\ UNCHANGED result
               ELSE /\ Fail(p, "BadAuth")
                    /\ UNCHANGED key_material
    /\ UNCHANGED <<dialer, session_rest, pump_vars, psk, channel, joined,
                   hello, wire, my_private_key, peer_public_key, sig_sent,
                   candidates_tx, remote_candidates, ice_rx_shut>>
    /\ UNCHANGED <<timer_vars, exchange_vars, ws_vars, shut_vars>>

\* CandidateExchange::new: send the sentinel
IceNew(p) ==
    /\ kpc[p] = "ice_new"
    /\ WsSend(p, PROTOCOL_START)
    /\ kpc' = [kpc EXCEPT ![p] = "ice_handshake"]
    /\ UNCHANGED <<dialer, session_rest, pump_vars, psk, channel, joined,
                   hello, inbox, my_private_key, peer_public_key, peer_sig,
                   key_material, result, rx_texts, candidates_tx,
                   remote_candidates, ice_rx_shut>>
    /\ UNCHANGED <<timer_vars, exchange_vars, ws_vars, shut_vars>>

\* CandidateExchange::new: the first text received must be the sentinel
IceHandshake(p) ==
    /\ kpc[p] = "ice_handshake"
    /\ RecvReady(p)
    /\ RecvEffects(p)
    /\ IF RecvText(p) = PROTOCOL_START
       THEN /\ kpc' = [kpc EXCEPT ![p] = "ice_connect"]
            /\ UNCHANGED result
       ELSE Fail(p, "BadHandshake")
    /\ UNCHANGED <<dialer, session_rest, pump_vars, psk, channel, joined,
                   hello, wire, my_private_key, peer_public_key, peer_sig,
                   key_material, sig_sent, candidates_tx, remote_candidates,
                   ice_rx_shut>>
    /\ UNCHANGED <<timer_vars, exchange_vars, ws_vars, shut_vars>>

\* IceAgent::connect, exchange arm, Left: a gathered candidate is sent
IceLocalCandidate(p) ==
    /\ kpc[p] = "ice_connect"
    /\ candidates_tx[p] < MaxCandidates
    /\ WsSend(p, CandidateText)
    /\ candidates_tx' = [candidates_tx EXCEPT ![p] = @ + 1]
    /\ UNCHANGED <<dialer, session_rest, pump_vars, psk, channel, joined,
                   hello, inbox, kpc, my_private_key, peer_public_key,
                   peer_sig, key_material, result, rx_texts,
                   remote_candidates, ice_rx_shut>>
    /\ UNCHANGED <<timer_vars, exchange_vars, ws_vars, shut_vars>>

\* IceAgent::connect, exchange arm, Right: "Close" sets rx_shut, a candidate
\* is unmarshalled and given to the agent
IceRemoteCandidate(p) ==
    /\ kpc[p] = "ice_connect"
    /\ RecvReady(p)
    /\ RecvEffects(p)
    /\ IF RecvText(p) = PROTOCOL_CLOSE
       THEN /\ ice_rx_shut' = [ice_rx_shut EXCEPT ![p] = TRUE]
            /\ UNCHANGED <<remote_candidates, result, kpc>>
       ELSE IF RecvText(p) = CandidateText
       THEN /\ remote_candidates' = [remote_candidates EXCEPT ![p] = @ + 1]
            /\ UNCHANGED <<ice_rx_shut, result, kpc>>
       ELSE /\ Fail(p, "IceError")
            /\ UNCHANGED <<ice_rx_shut, remote_candidates>>
    /\ UNCHANGED <<dialer, session_rest, pump_vars, psk, channel, joined,
                   hello, wire, my_private_key, peer_public_key, peer_sig,
                   key_material, sig_sent, candidates_tx>>
    /\ UNCHANGED <<timer_vars, exchange_vars, ws_vars, shut_vars>>

\* IceAgent::connect, dial / accept arm: the agents found a working pair,
\* which takes a candidate of one side known to the other
IceConnected(p) ==
    /\ kpc[p] = "ice_connect"
    /\ kpc[Other(p)] \in {"ice_connect", "done"}
    /\ \E q \in Peers : remote_candidates[q] >= 1
    /\ kpc' = [kpc EXCEPT ![p] = "done"]
    /\ result' = [result EXCEPT ![p] = "Ok"]
    /\ UNCHANGED <<dialer, session_rest, pump_vars, psk, channel, joined,
                   hello, inbox, wire, my_private_key, peer_public_key,
                   peer_sig, key_material, sig_sent, rx_texts, candidates_tx,
                   remote_candidates, ice_rx_shut>>
    /\ UNCHANGED <<timer_vars, exchange_vars, ws_vars, shut_vars>>

\* the steps of connect() on one peer
ConnectStep(p) ==
    \/ ConnectDeriveChannel(p)
    \/ WsConnect(p)
    \/ WsNew(p)
    \/ AgreeSendPk(p)
    \/ AgreeSendSig(p)
    \/ AgreeRecvPk(p)
    \/ AgreeRecvSig(p)
    \/ IceNew(p)
    \/ IceHandshake(p)
    \/ IceLocalCandidate(p)
    \/ IceRemoteCandidate(p)
    \/ IceConnected(p)

NextConnect ==
    \E p \in Peers :
        \/ ConnectStep(p)
        \/ ServerHello(p)
        \/ ServerRelay(p)

SpecConnect == InitConnect /\ [][NextConnect]_vars

\* the runtime polls a future that can make progress, and the server greets
\* and relays
FairSpecConnect ==
    /\ SpecConnect
    /\ \A p \in Peers :
         /\ WF_vars(ConnectStep(p))
         /\ WF_vars(ServerHello(p))
         /\ WF_vars(ServerRelay(p))

----------------------------------------------------------------------------
(* Claims on the Connection (Spec) *)

\* C1: the payloads then returned as Some on one peer are a prefix of the
\* byte strings passed to send on the other peer, in order, none duplicated,
\* dropped, reordered or altered; once the sender has closed cleanly and the
\* receiver's rx_closed() is true, the two sequences are equal.
C1_OrderedDelivery ==
    \A p \in Peers :
        /\ IsPrefix(delivered[Other(p)], sent[p])
        /\ (closes[p] >= 1 /\ RxClosed(Other(p))) => delivered[Other(p)] = sent[p]

\* C3: when the two sides build their Chacha20Stream from the same key
\* material with opposite roles, one side's sealing key is the other side's
\* opening key, and before any record is sealed or opened one side's
\* sealing counter is the other side's opening counter.
C3_KeyScheduleSymmetry ==
    \A p \in Peers :
        (/\ cpc[p] # "new" /\ cpc[Other(p)] # "new"
         /\ basekey[p] = basekey[Other(p)]
         /\ dialer[p] # dialer[Other(p)]) =>
            /\ sealing_key[p] # NoKey
            /\ sealing_key[p] = opening_key[Other(p)]
            /\ (Len(sent[p]) = 0 /\ Len(delivered[Other(p)]) = 0
                    /\ err[Other(p)] = "")
                   => sealing_seq[p] = opening_seq[Other(p)]

C3_Witness ==
    /\ \A p \in Peers : cpc[p] = "idle"
    /\ basekey["A"] = 2 /\ basekey["B"] = 2
    /\ ~dialer["A"] /\ dialer["B"]
    /\ TotalSends = 0
    /\ sealing_key["A"] = opening_key["B"]
    /\ sealing_seq["B"] = opening_seq["A"]
    /\ sealing_key["A"] # sealing_key["B"]

\* C10: a close called after a close that returned Ok is a no-op: it makes
\* no further send, sleep or shutdown call on the layer below and changes
\* no state.
C10_CloseIdempotent ==
    [][\A p \in Peers :
          (closes[p] >= 1 /\ closes'[p] > closes[p]) =>
              /\ shutdown_calls'[p] = shutdown_calls[p]
              /\ close_sleeps'[p] = close_sleeps[p]
              /\ UNCHANGED <<crypto_vars, stream_vars, sctp_vars>>]_vars

----------------------------------------------------------------------------
(* Claims on the pump (SpecPump) *)

RECURSIVE Concat(_)
Concat(chunks) ==
    IF chunks = <<>> THEN <<>> ELSE Head(chunks) \o Concat(Tail(chunks))

\* C2: every payload a then returns is passed to the send of the opposite
\* stream exactly once, in order, before the pump waits again; so the bytes
\* written to one peer's local output are a prefix of the bytes read from
\* the other peer's local input.
C2_PumpForwards ==
    \A p \in Peers :
        /\ ppc[p] \in {"loop", "close_local", "done"} =>
               /\ pending[p] = None
               /\ output[p] = delivered[p]
               /\ sent[p] = in_read[p]
        /\ ppc[p] = "local_send" =>
               /\ pending[p] # None
               /\ delivered[p] = Append(output[p], pending[p][1])
               /\ sent[p] = in_read[p]
        /\ ppc[p] = "peer_send" =>
               /\ pending[p] # None
               /\ in_read[p] = Append(sent[p], pending[p][1])
               /\ output[p] = delivered[p]
        /\ IsPrefix(Concat(output[Other(p)]), Concat(in_read[p]))

C2_Witness ==
    /\ Len(output["B"]) = 2
    /\ output["B"] = in_read["A"]
    /\ output["B"][1] # output["B"][2]
    /\ ppc["B"] = "loop"

----------------------------------------------------------------------------
(* Claims on connect() (SpecConnect, FairSpecConnect) *)

\* Websocket::new returned Ok on peer p
Assigned(p) == kpc[p] \notin {"start", "ws_connect", "ws_new"} /\ result[p] # "ProtocolError"

SamePskOppositeRoles ==
    /\ psk["A"] = psk["B"]
    /\ \A p \in Peers : Assigned(p)
    /\ dialer["A"] # dialer["B"]

BothAgreed ==
    /\ \A p \in Peers : key_material[p] # None /\ result[p] \in {"", "Ok"}
    /\ key_material["A"] = key_material["B"]

\* C4: two peers with the same PSK and opposite roles that run agree over
\* the FIFO signalling channel never block each other: each sends its public
\* key and its signature before it waits to receive, so both return Ok, with
\* the same key material.
C4_AgreementCompletes == SamePskOppositeRoles ~> BothAgreed

C4_Witness ==
    /\ SamePskOppositeRoles
    /\ BothAgreed
    /\ my_private_key["A"] # my_private_key["B"]
    /\ \A p \in Peers : rx_texts[p] = 2

\* C5: agree returns key material only if the received signature is the
\* HMAC of the received public key under the key of the opposite role; on a
\* verification failure it returns BadAuth with no shared secret computed,
\* and the peer has sent its public key and its signature and nothing else:
\* no sentinel, no candidate, and connect() has ended before Sctp::new.
C5_AgreeOnlyIfVerified ==
    \A p \in Peers :
        /\ key_material[p] # None =>
               /\ peer_public_key[p] # None
               /\ peer_sig[p] # None
               /\ peer_sig[p][1] =
                      Hmac(derive_len(psk[p], ~dialer[p], "keymaterial_check"),
                           peer_public_key[p][1])
        /\ result[p] = "BadAuth" =>
               /\ key_material[p] = None
               /\ kpc[p] = "failed"
               /\ Len(sig_sent[p]) = 2
               /\ \A i \in 1..Len(sig_sent[p]) : sig_sent[p][i].b64
               /\ candidates_tx[p] = 0
               /\ cpc[p] = "new"

C5_Witness ==
    \E p \in Peers :
        /\ result[p] = "BadAuth"
        /\ rx_texts[p] = 2
        /\ key_material[Other(p)] = None

\* C6 as stated: peers started with PSKs that differ both end with BadAuth.
C6_DifferentPskBadAuth ==
    (psk["A"] # psk["B"] /\ \A p \in Peers : Assigned(p))
        ~> (\A p \in Peers : result[p] = "BadAuth")

\* C6: peers started with PSKs that differ derive different channel names,
\* so the server never relays a message between them: neither receives a
\* public key or a signature, neither ends with BadAuth or with key
\* material, and neither sends or receives an ICE candidate; each gets as
\* far as waiting in agree for the far end's public key.
C6_DifferentPskNeverMeet ==
    psk["A"] # psk["B"] =>
        /\ (channel["A"] # None /\ channel["B"] # None) => channel["A"] # channel["B"]
        /\ \A p \in Peers :
              /\ inbox[p] = <<>>
              /\ rx_texts[p] = 0
              /\ result[p] \in {"", "ProtocolError"}
              /\ key_material[p] = None
              /\ candidates_tx[p] = 0
              /\ remote_candidates[p] = 0
              /\ kpc[p] \in {"start", "ws_connect", "ws_new", "send_pk",
                             "send_sig", "recv_pk", "failed"}

C6_Witness ==
    /\ psk["A"] # psk["B"]
    /\ \A p \in Peers : kpc[p] = "recv_pk" /\ Len(wire[p]) = 2

BothDialer ==
    \A p \in Peers :
        Assigned(p) /\ hello[p] = Some(Frame("Text", StrText("DIALER")))

\* C7 as stated: with "DIALER" assigned to both, a peer that has received
\* its first text has ended with a signalling protocol error.
C7_BothDialerProtocolError ==
    \A p \in Peers :
        (BothDialer /\ rx_texts[p] >= 1) => result[p] = "ProtocolError"

\* C7: with "DIALER" assigned to both peers of a channel, each peer accepts
\* the first text (the public key) and ends with BadAuth on the second (the
\* signature, made with the dialer key and checked with the listener key);
\* no key material is agreed and no session is established.
C7_BothDialerBadAuth ==
    /\ [](BothDialer =>
            \A p \in Peers :
                /\ key_material[p] = None
                /\ result[p] \in {"", "BadAuth"}
                /\ result[p] = "BadAuth" => rx_texts[p] = 2
                /\ rx_texts[p] = 2 => result[p] = "BadAuth")
    /\ (BothDialer /\ psk["A"] = psk["B"])
           ~> (\A p \in Peers : result[p] = "BadAuth")

C7_Witness ==
    /\ BothDialer
    /\ psk["A"] = psk["B"]
    /\ \A p \in Peers : result[p] = "BadAuth" /\ rx_texts[p] = 2

\* C8: Websocket::new succeeds only when the first frame is the text
\* "DIALER" or the text "LISTENER".
C8_RoleFrameOnly ==
    \A p \in Peers :
        Assigned(p) =>
            hello[p] \in {Some(Frame("Text", StrText("DIALER"))),
                          Some(Frame("Text", StrText("LISTENER")))}

\* C9: the channel name is fixed by the PSK alone: it is there before the
\* WebSocket is opened, it is the same whatever role the server assigns,
\* two peers with the same PSK have the same name and two peers with
\* different PSKs have different names.
C9_ChannelOfPsk ==
    /\ \A p \in Peers : joined[p] => channel[p] # None
    /\ \A p, q \in Peers :
          (channel[p] # None /\ channel[q] # None) =>
              (channel[p] = channel[q] <=> psk[p] = psk[q])

C9_Witness ==
    /\ \A p \in Peers : Assigned(p) /\ channel[p] # None
    /\ psk["A"] = psk["B"]
    /\ dialer["A"] # dialer["B"]
    /\ channel["A"] = channel["B"]

----------------------------------------------------------------------------
(* Claims on the receive half *)

\* C11: rx_closed() is monotone: once it is true on a layer it is true in
\* every later state, whatever connection states the watcher publishes.
C11_RxClosedMonotone ==
    [][\A p \in Peers :
          /\ RxClosed(p) => RxClosed(p)'
          /\ rx_shut[p] => rx_shut'[p]
          /\ ice_rx_shut[p] => ice_rx_shut'[p]]_vars

\* C12: after rx_closed() has become true on a layer, no wait / then cycle
\* on that layer returns a payload.
C12_NoPayloadAfterRxClosed ==
    [][\A p \in Peers :
          /\ RxClosed(p) => delivered'[p] = delivered[p]
          /\ rx_shut[p] => in_read'[p] = in_read[p]]_vars

\* C13: close only shuts the transmit half: a close step leaves the read
\* half of the stream and the rx_closed flag of its own side as they were,
\* and the rx_closed flag is set only once the far end has closed.
C13_CloseOnlyTransmit ==
    [][\A p \in Peers :
          /\ closes'[p] > closes[p] =>
                /\ read_shutdown'[p] = read_shutdown[p]
                /\ rx_closed'[p] = rx_closed[p]
          /\ (rx_closed'[p] /\ ~rx_closed[p]) => closes[Other(p)] >= 1]_vars

----------------------------------------------------------------------------
(* Claims on the end of the pump (SpecPump) *)

\* C14: after a peer's local input has reached end of file it sends no
\* further payload and keeps delivering what the far end sends: with no
\* error and no ICE state change, once both pumps have ended everything the
\* far end sent has been written to the peer's local output.
C14_HalfClose ==
    \A p \in Peers :
        (rx_shut[p] /\ ice_events = 0 /\ err[p] = "" /\ err[Other(p)] = "") =>
            /\ ppc[p] # "peer_send"
            /\ (ppc[p] = "done" /\ ppc[Other(p)] = "done")
                   => output[p] = sent[Other(p)]

\* C15: when wait, then or send fails in the loop, the pump has called
\* close on peer_stream and on local_stream by the time it returns the
\* error.
C15_ErrorClosesBoth ==
    \A p \in Peers :
        ppc[p] = "err" => (closes[p] >= 1 /\ out_shutdowns[p] >= 1)

PumpEndedCleanly(p) ==
    /\ ppc[p] = "done"
    /\ err[p] = ""
    /\ closes[p] = 1
    /\ out_shutdowns[p] = 1

\* C16: once one peer's local input has reached end of file, both pumps
\* leave the loop, each peer closes its peer_stream and its local_stream
\* once, every close returns Ok and both peers end without an error.
C16_CleanClose ==
    (\E p \in Peers : rx_shut[p]) ~> (\A p \in Peers : PumpEndedCleanly(p))

C16_Witness ==
    /\ rx_shut["A"] /\ ~rx_shut["B"]
    /\ \A p \in Peers : PumpEndedCleanly(p)
    /\ rx_closed["B"]
----------------------------------------------------------------------------
(* SpecWs: one Websocket that its owner keeps waiting on, the server at the
   other end, and the clock *)

\* ws.rs: next_ping = last_ping + 15 s, pong_timeout = last_pong + 60 s
PING_SECS == 15
PONG_SECS == 60

\* the clock stops here
MaxTime == 90
\* frames the server sends after the first one
MaxWsFrames == 2
\* texts the owner of the Websocket sends
MaxWsSends == 1

\* the instants the clock takes
Instants == {t \in 0..MaxTime : t % PING_SECS = 0}

\* frames the server may send on an open WebSocket
WsFrames ==
    {Frame("Text", StrText("x")), Frame("Text", StrText("y")),
     Frame("Ping", StrText("")), Frame("Ping", StrText("k")),
     Frame("Pong", StrText("")), Frame("Binary", StrText(""))}

\* the branches of the select! in Websocket::wait that are ready
IncomingReady(p) == inbox[p] # <<>> \/ ws_closed[p]
PingReady(p) == now >= last_ping[p] + PING_SECS
PongTimeoutReady(p) == now >= last_pong[p] + PONG_SECS

\* every peer that has started holds an open Websocket and stands at st[p]
InitSockets(st) ==
    /\ InitSession
    /\ basekey["A"] = 1
    /\ InitNoPump
    /\ InitTimers
    /\ InitExchange
    /\ psk = [p \in Peers |-> "p1"]
    /\ channel = [p \in Peers |-> Some(ChannelName("p1"))]
    /\ joined = [p \in Peers |-> st[p] # "start"]
    /\ hello = [p \in Peers |->
                  IF st[p] = "start" THEN None
                  ELSE IF p = "A" THEN Some(Frame("Text", StrText("DIALER")))
                  ELSE Some(Frame("Text", StrText("LISTENER")))]
    /\ inbox = [p \in Peers |-> <<>>]
    /\ wire = [p \in Peers |-> <<>>]
    /\ kpc = st
    /\ my_private_key = [p \in Peers |-> 0]
    /\ peer_public_key = [p \in Peers |-> None]
    /\ peer_sig = [p \in Peers |-> None]
    /\ key_material = [p \in Peers |-> None]
    /\ result = [p \in Peers |-> ""]
    /\ sig_sent = [p \in Peers |-> <<>>]
    /\ rx_texts = [p \in Peers |-> 0]
    /\ candidates_tx = [p \in Peers |-> 0]
    /\ remote_candidates = [p \in Peers |-> 0]
    /\ ice_rx_shut = [p \in Peers |-> FALSE]

\* peer A holds an open Websocket and stands at st, peer B has not started
InitSocketIn(st) == InitSockets([p \in Peers |-> IF p = "A" THEN st ELSE "start"])

InitWs == InitSocketIn("ws_wait")

\* the server sends a frame on the WebSocket
ServerFrame(p) ==
    /\ kpc[p] = "ws_wait"
    /\ ~ws_closed[p]
    /\ ws_waits[p] - ws_pings[p] + Len(inbox[p]) < MaxWsFrames
    /\ \E f \in WsFrames : inbox' = [inbox EXCEPT ![p] = Append(@, f)]
    /\ UNCHANGED <<session_vars, pump_vars, exchange_vars,
                   timer_vars, psk, channel, joined,
                   hello, wire, kpc, my_private_key, peer_public_key,
                   peer_sig, key_material, result, sig_sent, rx_texts,
                   candidates_tx, remote_candidates, ice_rx_shut>>
    /\ UNCHANGED ws_vars
    /\ UNCHANGED shut_vars

\* Websocket::then on WebsocketValue::Incoming(msg): the error, or the
\* Output when there is none, for a frame other than one that is answered
WsThenLenient(msg) ==
    IF msg.ftype = "Text" THEN [err |-> "", out |-> Some(msg.text)]
    ELSE [err |-> "", out |-> None]

WsThen(msg) ==
    CASE msg.ftype = "Text" -> [err |-> "", out |-> Some(msg.text)]
      [] msg.ftype \in {"Ping", "Pong"} -> [err |-> "", out |-> None]
      [] OTHER -> [err |-> "ProtocolError", out |-> None]

\* whether ws.send returns Ok: it does on an open WebSocket, and it may or
\* may not once the server has closed it
SendOutcomes(p) == IF ws_closed[p] THEN BOOLEAN ELSE {TRUE}

\* Websocket::wait takes the ws.next() branch, then Websocket::then on
\* WebsocketValue::Incoming
WsIncoming(p) ==
    /\ kpc[p] = "ws_wait"
    /\ inbox[p] # <<>>
    /\ ws_waits' = [ws_waits EXCEPT ![p] = @ + 1]
    /\ inbox' = [inbox EXCEPT ![p] = Tail(@)]
    /\ LET msg == Head(inbox[p])
           r == WsThen(msg)
       IN
       /\ rx_texts' = [rx_texts EXCEPT ![p] =
                         IF msg.ftype = "Text" THEN @ + 1 ELSE @]
       /\ last_ping' = [last_ping EXCEPT ![p] =
                          IF msg.ftype \in {"Ping", "Pong"} THEN now ELSE @]
       /\ last_pong' = [last_pong EXCEPT ![p] =
                          IF msg.ftype \in {"Ping", "Pong"} THEN now ELSE @]
       /\ \E sent_ok \in SendOutcomes(p) :
            IF msg.ftype = "Ping" /\ ~sent_ok
            THEN /\ Fail(p, "Io")
                 /\ UNCHANGED <<ws_pongs, ws_output>>
            ELSE /\ ws_pongs' = [ws_pongs EXCEPT ![p] =
                                   IF msg.ftype = "Ping" THEN Append(@, msg.text)
                                   ELSE @]
                 /\ IF r.err # ""
                    THEN /\ Fail(p, r.err)
                         /\ UNCHANGED ws_output
                    ELSE /\ ws_output' = [ws_output EXCEPT ![p] = Some(r.out)]
                         /\ UNCHANGED <<kpc, result>>
    /\ UNCHANGED <<session_vars, pump_vars, exchange_vars, now, ws_pings,
                   ws_closed, psk, channel, joined, hello, wire,
                   my_private_key, peer_public_key, peer_sig, key_material,
                   sig_sent, candidates_tx, remote_candidates, ice_rx_shut>>
    /\ UNCHANGED shut_vars

\* the timestamps after a ping timer that also counts as a sign of life
AfterPingTimerBoth(p) == [last_ping |-> now, last_pong |-> now]

\* the timestamps after Websocket::then on WebsocketValue::Ping
AfterPingTimer(p) == [last_ping |-> now, last_pong |-> last_pong[p]]

\* Websocket::wait takes the sleep_until(next_ping) branch, then
\* Websocket::then on WebsocketValue::Ping
WsPing(p) ==
    /\ kpc[p] = "ws_wait"
    /\ PingReady(p)
    /\ ws_waits' = [ws_waits EXCEPT ![p] = @ + 1]
    /\ last_ping' = [last_ping EXCEPT ![p] = AfterPingTimer(p).last_ping]
    /\ last_pong' = [last_pong EXCEPT ![p] = AfterPingTimer(p).last_pong]
    /\ \E sent_ok \in SendOutcomes(p) :
         IF sent_ok
         THEN /\ ws_pings' = [ws_pings EXCEPT ![p] = @ + 1]
              /\ ws_output' = [ws_output EXCEPT ![p] = Some(None)]
              /\ UNCHANGED <<kpc, result>>
         ELSE /\ Fail(p, "Io")
              /\ UNCHANGED <<ws_pings, ws_output>>
    /\ UNCHANGED <<session_vars, pump_vars, exchange_vars, now,
                   ws_pongs, ws_closed, psk, channel, joined, hello, inbox,
                   wire, my_private_key, peer_public_key, peer_sig,
                   key_material, sig_sent, rx_texts, candidates_tx,
                   remote_candidates, ice_rx_shut>>
    /\ UNCHANGED shut_vars

\* Websocket::send: the owner sends a text
WsSendText(p) ==
    /\ kpc[p] = "ws_wait"
    /\ Len(sig_sent[p]) < MaxWsSends
    /\ \E sent_ok \in SendOutcomes(p) :
         IF sent_ok
         THEN /\ WsSend(p, StrText("x"))
              /\ UNCHANGED <<kpc, result>>
         ELSE /\ Fail(p, "Io")
              /\ UNCHANGED <<wire, sig_sent>>
    /\ UNCHANGED <<session_vars, pump_vars, exchange_vars, timer_vars,
                   ws_vars, psk, channel, joined, hello, inbox,
                   my_private_key, peer_public_key, peer_sig, key_material,
                   rx_texts, candidates_tx, remote_candidates, ice_rx_shut>>
    /\ UNCHANGED shut_vars

\* the server closes the WebSocket
ServerClose(p) ==
    /\ joined[p]
    /\ kpc[p] # "failed"
    /\ ~ws_closed[p]
    /\ ws_closed' = [ws_closed EXCEPT ![p] = TRUE]
    /\ UNCHANGED <<session_vars, pump_vars, connect_vars, timer_vars,
                   exchange_vars, ws_output>>
    /\ UNCHANGED shut_vars

\* Websocket::wait takes the ws.next() branch and the stream has ended:
\* ConnectionClosed
WsConnectionClosed(p) ==
    /\ kpc[p] = "ws_wait"
    /\ inbox[p] = <<>>
    /\ ws_closed[p]
    /\ Fail(p, "ConnectionClosed")
    /\ UNCHANGED <<session_vars, pump_vars, exchange_vars, timer_vars,
                   ws_vars, psk, channel, joined, hello, inbox, wire,
                   my_private_key, peer_public_key, peer_sig, key_material,
                   sig_sent, rx_texts, candidates_tx, remote_candidates,
                   ice_rx_shut>>
    /\ UNCHANGED shut_vars

\* Websocket::wait takes the sleep_until(pong_timeout) branch
WsPongTimeout(p) ==
    /\ kpc[p] = "ws_wait"
    /\ PongTimeoutReady(p)
    /\ Fail(p, "Timeout")
    /\ UNCHANGED <<session_vars, pump_vars, exchange_vars,
                   timer_vars, psk, channel, joined,
                   hello, inbox, wire, my_private_key, peer_public_key,
                   peer_sig, key_material, sig_sent, rx_texts, candidates_tx,
                   remote_candidates, ice_rx_shut>>
    /\ UNCHANGED ws_vars
    /\ UNCHANGED shut_vars

\* the clock advances while no branch of a pending wait is ready, and not
\* beyond the next deadline of a pending wait
TimePasses ==
    /\ \E p \in Peers : kpc[p] = "ws_wait"
    /\ \A p \in Peers :
         kpc[p] = "ws_wait" =>
           ~IncomingReady(p) /\ ~PingReady(p) /\ ~PongTimeoutReady(p)
    /\ \E t \in Instants :
         /\ t > now
         /\ \A p \in Peers :
              kpc[p] = "ws_wait" =>
                t <= last_ping[p] + PING_SECS /\ t <= last_pong[p] + PONG_SECS
         /\ now' = t
    /\ UNCHANGED <<session_vars, pump_vars, exchange_vars,
                   connect_vars, last_ping,
                   last_pong, ws_pings, ws_pongs, ws_waits>>
    /\ UNCHANGED ws_vars
    /\ UNCHANGED shut_vars

NextWs ==
    \/ TimePasses
    \/ \E p \in Peers :
        \/ ServerFrame(p)
        \/ WsIncoming(p)
        \/ WsPing(p)
        \/ WsPongTimeout(p)
        \/ ServerClose(p)
        \/ WsConnectionClosed(p)
        \/ WsSendText(p)

SpecWs == InitWs /\ [][NextWs]_vars

----------------------------------------------------------------------------
(* Claims on the timers of the Websocket *)

\* C17: Websocket::wait returns Timeout only once 60 s have passed since
\* last_pong was last reset, and no wait returns Ok once that deadline has
\* passed, also when the 15 s ping deadline expires at the same instant
C17_PongTimeoutExact ==
    [][\A p \in Peers :
         /\ (result[p] = "" /\ result'[p] = "Timeout")
              => now >= last_pong[p] + PONG_SECS
         /\ ws_waits'[p] > ws_waits[p] => now < last_pong[p] + PONG_SECS]_vars
----------------------------------------------------------------------------
(* SpecIce: the candidate pump of one IceAgent, in IceAgent::connect and in
   the waits its owner issues afterwards, with the agent gathering
   candidates and the server relaying frames.  The clock stands still, so
   the two sleeps of Websocket::wait stay pending. *)

\* candidates the agent gathers
MaxGathered == 2
\* frames the server relays after the handshake
MaxRelayed == 2
\* pending waits dropped while an event was ready
MaxLostRaces == 2

\* frames the far end may have sent
IceFrames ==
    {Frame("Text", CandidateText), Frame("Text", PROTOCOL_CLOSE),
     Frame("Text", PROTOCOL_START), Frame("Pong", StrText(""))}

\* the states of the owner in which CandidateExchange::wait is called
IceStates == {"ice_connect", "done"}
\* the states of the owner inside CandidateExchange::new
HandshakeStates == {"ice_new", "ice_handshake"}

\* the states of the owner inside and after CandidateExchange::close
CloseStates == {"ice_closing", "closed"}
\* close calls on one candidate exchange
MaxIceCloses == 2

\* an agent whose candidate callback is registered when it is created
CallbackRegisteredAtAgentNew(p) ==
    kpc[p] \in IceStates \cup CloseStates \cup HandshakeStates

\* IceAgent::new: on_candidate and gather_candidates come after
\* CandidateExchange::new has returned
CallbackRegistered(p) == kpc[p] \in IceStates \cup CloseStates

\* a close that returns once "Close" is sent, without the loop
DrainDoneAtOnce(p) == TRUE

\* CandidateExchange::close: the condition that ends while !self.rx_shut
DrainDone(p) == ice_rx_shut[p]

\* a connect that awaits the connection alone, without the pump arm
WaitCalledByCloseOnly(p) == kpc[p] = "ice_closing" /\ ~DrainDone(p)

\* CandidateExchange::wait is called: by IceAgent::connect and
\* IceAgent::wait, and by the loop of close while rx_shut is false
WaitCalled(p) ==
    \/ kpc[p] \in IceStates
    \/ kpc[p] = "ice_closing" /\ ~DrainDone(p)

\* a close that hands the agent to then
AgentSuppliedAlways(p) == TRUE

\* then is given Some(agent) by IceAgent and None by close
AgentSupplied(p) == kpc[p] \in IceStates

\* Either::Left / Either::Right of CandidateExchangeValue
CeLeft(candidate) == <<"Left", candidate>>
CeRight(msg) == <<"Right", msg>>

\* a source of events after a pending wait on it was dropped: the receiver
\* hands the next event to the waiting future before it is polled
WaitDroppedHandedOff(q) == IF q = <<>> THEN q ELSE Tail(q)

\* a source of events after a pending wait on it was dropped:
\* mpsc::Receiver::recv and WebSocketStream::next take an event only in the
\* poll that returns it
WaitDropped(q) == q

\* an event is ready for CandidateExchange::wait
EventReady(p) == candidate_rx[p] # <<>> \/ inbox[p] # <<>>

\* select! drops the CandidateExchange::wait future it did not complete
DropWait(p) ==
    /\ wait_pending' = [wait_pending EXCEPT ![p] = FALSE]
    /\ IF wait_pending[p]
       THEN /\ candidate_rx' = [candidate_rx EXCEPT ![p] = WaitDropped(@)]
            /\ inbox' = [inbox EXCEPT ![p] = WaitDropped(@)]
            /\ lost_races' = [lost_races EXCEPT ![p] =
                                IF EventReady(p) THEN @ + 1 ELSE @]
       ELSE UNCHANGED <<candidate_rx, inbox, lost_races>>

InitIce == InitSocketIn("ice_connect")

\* the on_candidate handler: send on the channel of capacity 1
OnCandidate(p) ==
    /\ CallbackRegistered(p)
    /\ gathered[p] < MaxGathered
    /\ Len(candidate_rx[p]) < 1
    /\ candidate_rx' = [candidate_rx EXCEPT ![p] =
                           Append(@, LocalCandidate(gathered[p] + 1))]
    /\ gathered' = [gathered EXCEPT ![p] = @ + 1]
    /\ UNCHANGED <<session_vars, pump_vars, connect_vars, timer_vars,
                   wait_pending, ce_value, relayed, lost_races>>
    /\ UNCHANGED ws_vars
    /\ UNCHANGED shut_vars

\* the server relays a frame of the far end
IceServerFrame(p) ==
    /\ kpc[p] \in IceStates \cup HandshakeStates \cup CloseStates
    /\ relayed[p] < MaxRelayed
    /\ \E f \in IceFrames : inbox' = [inbox EXCEPT ![p] = Append(@, f)]
    /\ relayed' = [relayed EXCEPT ![p] = @ + 1]
    /\ UNCHANGED <<session_vars, pump_vars, timer_vars, psk, channel, joined,
                   hello, wire, kpc, my_private_key, peer_public_key,
                   peer_sig, key_material, result, sig_sent, rx_texts,
                   candidates_tx, remote_candidates, ice_rx_shut,
                   candidate_rx, wait_pending, ce_value, gathered,
                   lost_races>>
    /\ UNCHANGED ws_vars
    /\ UNCHANGED shut_vars

\* CandidateExchange::wait is polled and no branch is ready
IceWaitPending(p) ==
    /\ WaitCalled(p)
    /\ ce_value[p] = None
    /\ ~wait_pending[p]
    /\ ~EventReady(p)
    /\ wait_pending' = [wait_pending EXCEPT ![p] = TRUE]
    /\ UNCHANGED <<session_vars, pump_vars, connect_vars, timer_vars,
                   candidate_rx, ce_value, gathered, relayed, lost_races>>
    /\ UNCHANGED ws_vars
    /\ UNCHANGED shut_vars

\* CandidateExchange::wait returns Either::Left
IceWaitLeft(p) ==
    /\ WaitCalled(p)
    /\ ce_value[p] = None
    /\ candidate_rx[p] # <<>>
    /\ ce_value' = [ce_value EXCEPT ![p] = Some(CeLeft(Head(candidate_rx[p])))]
    /\ candidate_rx' = [candidate_rx EXCEPT ![p] = Tail(@)]
    /\ wait_pending' = [wait_pending EXCEPT ![p] = FALSE]
    /\ UNCHANGED <<session_vars, pump_vars, connect_vars, timer_vars,
                   gathered, relayed, lost_races>>
    /\ UNCHANGED ws_vars
    /\ UNCHANGED shut_vars

\* CandidateExchange::wait returns Either::Right: Websocket::wait took the
\* ws.next() branch
IceWaitRight(p) ==
    /\ WaitCalled(p)
    /\ ce_value[p] = None
    /\ inbox[p] # <<>>
    /\ ce_value' = [ce_value EXCEPT ![p] = Some(CeRight(Head(inbox[p])))]
    /\ inbox' = [inbox EXCEPT ![p] = Tail(@)]
    /\ ws_waits' = [ws_waits EXCEPT ![p] = @ + 1]
    /\ wait_pending' = [wait_pending EXCEPT ![p] = FALSE]
    /\ UNCHANGED <<session_vars, pump_vars, now, last_ping, last_pong,
                   ws_pings, ws_pongs, psk, channel, joined, hello, wire,
                   kpc, my_private_key, peer_public_key, peer_sig,
                   key_material, result, sig_sent, rx_texts, candidates_tx,
                   remote_candidates, ice_rx_shut, candidate_rx, gathered,
                   relayed, lost_races>>
    /\ UNCHANGED ws_vars
    /\ UNCHANGED shut_vars

\* CandidateExchange::then with Some(agent), Websocket::then included
IceThen(p) ==
    /\ kpc[p] \in IceStates \cup {"ice_closing"}
    /\ ce_value[p] # None
    /\ ce_value' = [ce_value EXCEPT ![p] = None]
    /\ LET value == ce_value[p][1] IN
       IF value[1] = "Left"
       THEN /\ \E sent_ok \in SendOutcomes(p) :
                 IF sent_ok
                 THEN /\ WsSend(p, value[2])
                      /\ candidates_tx' = [candidates_tx EXCEPT ![p] = @ + 1]
                      /\ UNCHANGED <<kpc, result>>
                 ELSE /\ Fail(p, "Io")
                      /\ UNCHANGED <<wire, sig_sent, candidates_tx>>
            /\ UNCHANGED <<rx_texts, remote_candidates, ice_rx_shut,
                           last_ping, last_pong, ws_pongs>>
       ELSE /\ UNCHANGED <<wire, sig_sent, candidates_tx>>
            /\ LET msg == value[2] IN
                CASE msg.ftype = "Text" /\ msg.text = PROTOCOL_CLOSE ->
                       /\ rx_texts' = [rx_texts EXCEPT ![p] = @ + 1]
                       /\ ice_rx_shut' = [ice_rx_shut EXCEPT ![p] = TRUE]
                       /\ UNCHANGED <<remote_candidates, kpc, result, last_ping,
                                      last_pong, ws_pongs>>
                  [] msg.ftype = "Text" /\ Unmarshals(msg.text) ->
                       /\ rx_texts' = [rx_texts EXCEPT ![p] = @ + 1]
                       /\ remote_candidates' =
                            [remote_candidates EXCEPT ![p] =
                               IF AgentSupplied(p) THEN @ + 1 ELSE @]
                       /\ UNCHANGED <<ice_rx_shut, kpc, result, last_ping,
                                      last_pong, ws_pongs>>
                  [] msg.ftype = "Text" /\ msg.text # PROTOCOL_CLOSE
                                        /\ ~Unmarshals(msg.text) ->
                       /\ rx_texts' = [rx_texts EXCEPT ![p] = @ + 1]
                       /\ IF AgentSupplied(p)
                          THEN Fail(p, "IceError")
                          ELSE UNCHANGED <<kpc, result>>
                       /\ UNCHANGED <<remote_candidates, ice_rx_shut, last_ping,
                                      last_pong, ws_pongs>>
                  [] msg.ftype = "Ping" ->
                       /\ last_ping' = [last_ping EXCEPT ![p] = now]
                       /\ last_pong' = [last_pong EXCEPT ![p] = now]
                       /\ \E sent_ok \in SendOutcomes(p) :
                            IF sent_ok
                            THEN /\ ws_pongs' = [ws_pongs EXCEPT ![p] =
                                                   Append(@, msg.text)]
                                 /\ UNCHANGED <<kpc, result>>
                            ELSE /\ Fail(p, "Io")
                                 /\ UNCHANGED ws_pongs
                       /\ UNCHANGED <<rx_texts, remote_candidates, ice_rx_shut>>
                  [] msg.ftype = "Pong" ->
                       /\ last_ping' = [last_ping EXCEPT ![p] = now]
                       /\ last_pong' = [last_pong EXCEPT ![p] = now]
                       /\ UNCHANGED <<rx_texts, remote_candidates, ice_rx_shut,
                                      kpc, result, ws_pongs>>
                  [] OTHER ->
                       /\ Fail(p, "ProtocolError")
                       /\ UNCHANGED <<rx_texts, remote_candidates, ice_rx_shut,
                                      last_ping, last_pong, ws_pongs>>
    /\ UNCHANGED <<session_vars, pump_vars, now, ws_pings, ws_waits, psk,
                   channel, joined, hello, inbox, my_private_key,
                   peer_public_key, peer_sig, key_material, candidate_rx,
                   wait_pending, gathered, relayed, lost_races>>
    /\ UNCHANGED ws_vars
    /\ UNCHANGED shut_vars

\* IceAgent::connect: the select! takes the dial / accept arm and the loop
\* breaks, dropping the wait2 future
IceConnectResolves(p) ==
    /\ kpc[p] = "ice_connect"
    /\ ce_value[p] = None
    /\ DropWait(p)
    /\ kpc' = [kpc EXCEPT ![p] = "done"]
    /\ result' = [result EXCEPT ![p] = "Ok"]
    /\ UNCHANGED <<session_vars, pump_vars, timer_vars, psk, channel, joined,
                   hello, wire, my_private_key, peer_public_key, peer_sig,
                   key_material, sig_sent, rx_texts, candidates_tx,
                   remote_candidates, ice_rx_shut, ce_value, gathered,
                   relayed>>
    /\ UNCHANGED ws_vars
    /\ UNCHANGED shut_vars

\* the select! of the owner of the IceAgent takes another arm and drops the
\* pending IceAgent::wait
IceDropWait(p) ==
    /\ kpc[p] = "done"
    /\ wait_pending[p]
    /\ EventReady(p) => lost_races[p] < MaxLostRaces
    /\ DropWait(p)
    /\ UNCHANGED <<session_vars, pump_vars, timer_vars, psk, channel, joined,
                   hello, wire, kpc, my_private_key, peer_public_key,
                   peer_sig, key_material, result, sig_sent, rx_texts,
                   candidates_tx, remote_candidates, ice_rx_shut, ce_value,
                   gathered, relayed>>
    /\ UNCHANGED ws_vars
    /\ UNCHANGED shut_vars

\* a close that sends "Close" on every call
CloseSendsAlways(p) == TRUE

\* CandidateExchange::close: if !self.tx_shut
CloseSends(p) == ~ice_tx_shut[p]

\* CandidateExchange::close is called: "Close" is sent unless tx_shut, then
\* the loop starts
IceCloseCall(p) ==
    /\ kpc[p] \in {"done", "closed"}
    /\ ce_value[p] = None
    /\ ice_closes[p] < MaxIceCloses
    /\ ice_closes' = [ice_closes EXCEPT ![p] = @ + 1]
    /\ \E sent_ok \in SendOutcomes(p) :
         IF ~CloseSends(p)
         THEN /\ kpc' = [kpc EXCEPT ![p] = "ice_closing"]
              /\ UNCHANGED <<wire, sig_sent, ice_tx_shut, result>>
         ELSE IF sent_ok
         THEN /\ WsSend(p, PROTOCOL_CLOSE)
              /\ ice_tx_shut' = [ice_tx_shut EXCEPT ![p] = TRUE]
              /\ kpc' = [kpc EXCEPT ![p] = "ice_closing"]
              /\ UNCHANGED result
         ELSE /\ Fail(p, "Io")
              /\ UNCHANGED <<wire, sig_sent, ice_tx_shut>>
    /\ DropWait(p)
    /\ UNCHANGED <<session_vars, pump_vars, timer_vars, ws_vars, psk,
                   channel, joined, hello, my_private_key, peer_public_key,
                   peer_sig, key_material, rx_texts, candidates_tx,
                   remote_candidates, ice_rx_shut, ce_value, gathered,
                   relayed, callback_panics, flow_vars, seq_vars, conv_vars>>

\* CandidateExchange::close: the loop ends with rx_shut, Ok(())
IceCloseReturn(p) ==
    /\ kpc[p] = "ice_closing"
    /\ ce_value[p] = None
    /\ DrainDone(p)
    /\ kpc' = [kpc EXCEPT ![p] = "closed"]
    /\ UNCHANGED <<session_vars, pump_vars, timer_vars, ws_vars, shut_vars,
                   exchange_vars, psk, channel, joined, hello, inbox, wire,
                   my_private_key, peer_public_key, peer_sig, key_material,
                   result, sig_sent, rx_texts, candidates_tx,
                   remote_candidates, ice_rx_shut>>

\* CandidateExchange::wait fails: ws.next() gave None on a closed socket
IceWaitClosed(p) ==
    /\ WaitCalled(p)
    /\ ce_value[p] = None
    /\ inbox[p] = <<>>
    /\ ws_closed[p]
    /\ Fail(p, "ConnectionClosed")
    /\ wait_pending' = [wait_pending EXCEPT ![p] = FALSE]
    /\ UNCHANGED <<session_vars, pump_vars, timer_vars, ws_vars, shut_vars,
                   psk, channel, joined, hello, inbox, wire, my_private_key,
                   peer_public_key, peer_sig, key_material, sig_sent,
                   rx_texts, candidates_tx, remote_candidates, ice_rx_shut,
                   candidate_rx, ce_value, gathered, relayed, lost_races>>

\* the server itself sends a frame that is not text
ServerControlFrame(p) ==
    /\ joined[p]
    /\ ~ws_closed[p]
    /\ relayed[p] < MaxRelayed
    /\ \E f \in {Frame("Pong", StrText("")), Frame("Ping", StrText(""))} :
         inbox' = [inbox EXCEPT ![p] = Append(@, f)]
    /\ relayed' = [relayed EXCEPT ![p] = @ + 1]
    /\ UNCHANGED <<session_vars, pump_vars, timer_vars, ws_vars, shut_vars,
                   psk, channel, joined, hello, wire, kpc, my_private_key,
                   peer_public_key, peer_sig, key_material, result, sig_sent,
                   rx_texts, candidates_tx, remote_candidates, ice_rx_shut,
                   candidate_rx, wait_pending, ce_value, gathered,
                   lost_races>>

NextIce ==
    \E p \in Peers :
        \/ IceCloseCall(p)
        \/ IceCloseReturn(p)
        \/ OnCandidate(p)
        \/ IceServerFrame(p)
        \/ IceWaitPending(p)
        \/ IceWaitLeft(p)
        \/ IceWaitRight(p)
        \/ IceThen(p)
        \/ IceConnectResolves(p)
        \/ IceDropWait(p)

SpecIce == InitIce /\ [][NextIce]_vars

----------------------------------------------------------------------------
(* One connected peer that closes its candidate exchange, any number of   *)
(* times, on a socket the server may close                                 *)

InitShut == InitSocketIn("done")

NextShut ==
    \E p \in Peers :
        \/ IceCloseCall(p)
        \/ IceCloseReturn(p)
        \/ OnCandidate(p)
        \/ IceServerFrame(p)
        \/ IceWaitPending(p)
        \/ IceWaitLeft(p)
        \/ IceWaitRight(p)
        \/ IceThen(p)
        \/ IceDropWait(p)
        \/ ServerClose(p)
        \/ IceWaitClosed(p)

SpecShut == InitShut /\ [][NextShut]_vars

----------------------------------------------------------------------------
(* Two connected peers that close their candidate exchanges *)

\* both peers have connected on one channel
InitClose == InitSockets([p \in Peers |-> "done"])

\* local candidates of the pair
MaxPairGathered == 1

\* control frames the server sends to the pair
MaxPairControl == 1

PairGathered == gathered["A"] + gathered["B"]
PairControl == relayed["A"] + relayed["B"]

\* close calls of one peer of the pair
MaxPairCloses == 1

NextClose ==
    \E p \in Peers :
        \/ ice_closes[p] < MaxPairCloses /\ IceCloseCall(p)
        \/ IceCloseReturn(p)
        \/ PairGathered < MaxPairGathered /\ OnCandidate(p)
        \/ ServerRelay(p)
        \/ PairControl < MaxPairControl /\ ServerControlFrame(p)
        \/ IceWaitPending(p)
        \/ IceWaitLeft(p)
        \/ IceWaitRight(p)
        \/ IceThen(p)
        \/ ServerClose(p)
        \/ IceWaitClosed(p)

SpecClose == InitClose /\ [][NextClose]_vars

----------------------------------------------------------------------------
(* Claims on the candidate pump *)

\* the value wait returned and then has not yet handled is a local candidate
HeldLeft(p) ==
    IF ce_value[p] # None /\ ce_value[p][1][1] = "Left" THEN 1 ELSE 0

\* C18: a CandidateExchange::wait dropped while pending, by the select! of
\* IceAgent::connect or of the owner, consumes nothing: every gathered
\* candidate is in the channel, held by the value wait returned or sent, and
\* every relayed frame is in the WebSocket or was returned by a wait
C18_WaitCancelSafe ==
    \A p \in Peers :
        /\ gathered[p] = candidates_tx[p] + HeldLeft(p) + Len(candidate_rx[p])
        /\ relayed[p] = ws_waits[p] + Len(inbox[p])

\* a pending wait lost the race twice while an event was ready, once in
\* IceAgent::connect, and every candidate and frame was surfaced afterwards
C18_Witness ==
    /\ kpc["A"] = "done"
    /\ lost_races["A"] = MaxLostRaces
    /\ gathered["A"] = MaxGathered
    /\ candidates_tx["A"] = MaxGathered
    /\ relayed["A"] = MaxRelayed
    /\ ws_waits["A"] = MaxRelayed
    /\ ce_value["A"] = None
----------------------------------------------------------------------------
(* Claims on the sizes of payloads *)

\* C19: on a Connection (same key material, opposite roles), the record of
\* a zero-byte payload is returned by then as Some of the empty payload and
\* leaves the receiver's rx_closed unset
C19_ZeroByteRoundTrip ==
    [][\A p \in Peers :
         ( /\ basekey[p] = basekey[Other(p)]
           /\ dialer[p] # dialer[Other(p)]
           /\ rxq[p] # <<>>
           /\ Head(rxq[p]).ppid = "Binary"
           /\ Head(rxq[p]).data.pt = <<>>
           /\ rxq'[p] = Tail(rxq[p]) )
         => /\ delivered'[p] = Append(delivered[p], <<>>)
            /\ err'[p] = ""
            /\ ~rx_closed'[p]]_vars

\* both directions carried a zero-byte payload
C19_Witness ==
    /\ basekey["A"] = basekey["B"]
    /\ dialer["A"] # dialer["B"]
    /\ \A p \in Peers :
         /\ sent[p] = <<<<>>>>
         /\ delivered[p] = <<<<>>>>
         /\ ~rx_closed[p]
         /\ err[p] = ""
----------------------------------------------------------------------------
(* SpecSizes: a Connection carrying payloads at the edges of the SCTP
   message limit and of the read buffer *)

\* sctp.rs: Config.max_message_size, and the length Sctp::wait gives buf
MAX_MESSAGE_SIZE == 8 * 1024
READ_BUF_LEN == 8096

\* plaintext lengths at the edges of the two limits
SizeCases ==
    {0, READ_BUF_LEN - TagLen, READ_BUF_LEN - TagLen + 1, 8160,
     MAX_MESSAGE_SIZE - TagLen, MAX_MESSAGE_SIZE - TagLen + 1}
SizePayloads == {[i \in 1..n |-> 0] : n \in SizeCases}

InitSizes == InitWatch

\* Chacha20Stream::send down to Stream::write_sctp, which refuses a message
\* longer than max_message_size
SizeSend(p) ==
    /\ err[p] = ""
    /\ TotalSends < MaxSends
    /\ \E d \in SizePayloads :
         IF Len(d) + TagLen > MAX_MESSAGE_SIZE
         THEN /\ sealing_seq' = [sealing_seq EXCEPT ![p] = AdvanceNext(@)]
              /\ err' = [err EXCEPT ![p] = "SctpError"]
              /\ UNCHANGED <<rxq, sent>>
         ELSE /\ ChachaSend(p, d)
              /\ UNCHANGED err
    /\ UNCHANGED <<basekey, dialer, sealing_key, opening_key, opening_seq,
                   write_shutdown, read_shutdown, sctp_vars, cpc, delivered,
                   close_vars, ice_events, pump_vars, connect_vars,
                   timer_vars, exchange_vars>>
    /\ UNCHANGED ws_vars
    /\ UNCHANGED shut_vars

\* Chacha20Stream::wait and then down to Stream::read_sctp into the
\* READ_BUF_LEN bytes of buf: a longer message is taken off the stream and
\* the read returns ErrShortBuffer
SizeRecv(p) ==
    /\ err[p] = ""
    /\ ReadReady(p)
    /\ IF ReadMsg(p).data.len > READ_BUF_LEN
       THEN /\ rxq' = [rxq EXCEPT ![p] = Tail(@)]
            /\ err' = [err EXCEPT ![p] = "SctpError"]
            /\ UNCHANGED <<buf, conn_changed, rx_closed, opening_seq,
                           delivered>>
       ELSE /\ WaitRead(p)
            /\ ThenEffects(p, ReadValue(p), ReadBuf(p))
    /\ UNCHANGED <<basekey, dialer, sealing_key, opening_key, sealing_seq,
                   write_shutdown, read_shutdown, connection, cpc, sent,
                   close_vars, ice_events, pump_vars, connect_vars,
                   timer_vars, exchange_vars>>
    /\ UNCHANGED ws_vars
    /\ UNCHANGED shut_vars

NextSizes ==
    \E p \in Peers :
        \/ SizeSend(p)
        \/ SizeRecv(p)

SpecSizes == InitSizes /\ [][NextSizes]_vars

\* C20: a record whose plaintext has at most 8,160 bytes is returned
\* unchanged by then on the far end, and a message of exactly 8 KiB is
\* received without an error
C20_RoundTripUpToLimit ==
    [][\A p \in Peers :
         ( /\ rxq[p] # <<>>
           /\ Head(rxq[p]).ppid = "Binary"
           /\ rxq'[p] = Tail(rxq[p]) )
         => /\ Len(Head(rxq[p]).data.pt) <= 8160
                 => /\ delivered'[p] = Append(delivered[p], Head(rxq[p]).data.pt)
                    /\ err'[p] = ""
            /\ Head(rxq[p]).data.len = MAX_MESSAGE_SIZE => err'[p] = ""]_vars
----------------------------------------------------------------------------
(* Claims on the two directions of a Chacha20Stream *)

\* C21: a send advances only the sealing counter of its stream, a then that
\* returns a payload advances only its opening counter, and a constructed
\* stream seals and opens with different keys and different nonce seeds
C21_DirectionIsolation ==
    [][\A p \in Peers :
         /\ sent'[p] # sent[p]
              => /\ sealing_seq'[p] = (sealing_seq[p] + 1) % U128
                 /\ opening_seq'[p] = opening_seq[p]
         /\ delivered'[p] # delivered[p]
              => /\ opening_seq'[p] = (opening_seq[p] + 1) % U128
                 /\ sealing_seq'[p] = sealing_seq[p]
         /\ (cpc[p] = "new" /\ cpc'[p] # "new")
              => /\ sealing_key'[p] # opening_key'[p]
                 /\ sealing_seq'[p] # opening_seq'[p]]_vars

\* one stream has sent a record and returned a payload, each counter one
\* past its seed
C21_Witness ==
    \E p \in Peers :
        /\ Len(sent[p]) = 1
        /\ Len(delivered[p]) = 1
        /\ sealing_seq[p] = AdvanceNext(get_seq(basekey[p], dialer[p]))
        /\ opening_seq[p] = AdvanceNext(get_seq(basekey[p], ~dialer[p]))
----------------------------------------------------------------------------
(* Claims on what Websocket::wait and Websocket::then return *)

\* C22: a text frame yields Some of exactly that text and takes one frame
\* off the WebSocket; a Ping, a Pong and the ping timer yield None; any
\* other frame yields ProtocolError; a failed send of a Ping or a Pong is an
\* error and happens only on a closed WebSocket; at the end of a closed
\* WebSocket the ws.next() branch returns ConnectionClosed and no value
C22_ThenClassifies ==
    [][\A p \in Peers :
         LET returned == ws_waits'[p] > ws_waits[p]
             incoming == returned /\ inbox'[p] # inbox[p]
             timer == returned /\ inbox'[p] = inbox[p]
             msg == Head(inbox[p])
             sent_ok == result'[p] # "Io"
         IN
         /\ incoming
              => /\ inbox[p] # <<>>
                 /\ inbox'[p] = Tail(inbox[p])
                 /\ msg.ftype = "Text"
                      => /\ ws_output'[p] = Some(Some(msg.text))
                         /\ rx_texts'[p] = rx_texts[p] + 1
                         /\ result'[p] = ""
                 /\ msg.ftype = "Pong" \/ (msg.ftype = "Ping" /\ sent_ok)
                      => /\ ws_output'[p] = Some(None)
                         /\ rx_texts'[p] = rx_texts[p]
                         /\ result'[p] = ""
                 /\ msg.ftype \notin {"Text", "Ping", "Pong"}
                      => /\ result'[p] = "ProtocolError"
                         /\ ws_output'[p] = ws_output[p]
         /\ (timer /\ sent_ok)
              => /\ ws_output'[p] = Some(None)
                 /\ result'[p] = ""
         /\ result'[p] = "Io" => ws_closed[p]
         /\ (ws_closed[p] /\ inbox[p] = <<>> /\ kpc[p] = "ws_wait"
               /\ kpc'[p] = "failed" /\ ~returned /\ sent_ok
               /\ ~PongTimeoutReady(p))
              => /\ result'[p] = "ConnectionClosed"
                 /\ ws_output'[p] = ws_output[p]
         /\ result'[p] = "ConnectionClosed" => ws_closed[p] /\ inbox[p] = <<>>
      ]_vars

\* a text was returned, then a Ping and the ping timer gave None, and the
\* WebSocket was closed by the server and wait failed
C22_Witness ==
    /\ rx_texts["A"] = 1
    /\ Len(ws_pongs["A"]) = 1
    /\ ws_pings["A"] >= 1
    /\ ws_output["A"] = Some(None)
    /\ ws_closed["A"]
    /\ result["A"] = "ConnectionClosed"
\* C23: last_ping and last_pong change only in then: a received Ping sets
\* both to now and sends a Pong with the same payload, a received Pong sets
\* both to now, the ping timer sends a Ping and sets last_ping only, and a
\* text received or sent changes neither
C23_TimestampUpdates ==
    [][\A p \in Peers :
         LET returned == ws_waits'[p] > ws_waits[p]
             incoming == returned /\ inbox'[p] # inbox[p]
             timer == returned /\ inbox'[p] = inbox[p]
             msg == Head(inbox[p])
             sent_ok == result'[p] # "Io"
             both_now == last_ping'[p] = now /\ last_pong'[p] = now
             neither == /\ last_ping'[p] = last_ping[p]
                        /\ last_pong'[p] = last_pong[p]
         IN
         /\ (incoming /\ msg.ftype = "Ping")
              => /\ both_now
                 /\ sent_ok => ws_pongs'[p] = Append(ws_pongs[p], msg.text)
         /\ (incoming /\ msg.ftype = "Pong") => both_now
         /\ timer
              => /\ last_ping'[p] = now
                 /\ last_pong'[p] = last_pong[p]
                 /\ sent_ok => ws_pings'[p] = ws_pings[p] + 1
         /\ (incoming /\ msg.ftype \notin {"Ping", "Pong"}) => neither
         /\ sig_sent'[p] # sig_sent[p] => neither
         /\ ~returned => neither
         /\ ~(incoming /\ msg.ftype = "Ping") => ws_pongs'[p] = ws_pongs[p]
         /\ ~timer => ws_pings'[p] = ws_pings[p]
      ]_vars

\* at 30 s: a Ping with payload was answered, after the ping timer had fired
\* at 15 s and left last_pong alone, and a text was sent and one received
C23_Witness ==
    /\ now = 30
    /\ ws_pings["A"] = 1
    /\ ws_pongs["A"] = <<StrText("k")>>
    /\ last_ping["A"] = 30
    /\ last_pong["A"] = 30
    /\ rx_texts["A"] = 1
    /\ Len(sig_sent["A"]) = 1
----------------------------------------------------------------------------
(* SpecAgent: IceAgent::new and IceAgent::connect on one peer, with the
   server relaying any frames from the handshake on *)

InitAgent == InitSocketIn("ice_new")

\* CandidateExchange::new, the loop around wait / then: a frame for which
\* Websocket::then returns None, or fails
IceHandshakeSkip(p) ==
    /\ kpc[p] = "ice_handshake"
    /\ inbox[p] # <<>>
    /\ Head(inbox[p]).ftype # "Text"
    /\ inbox' = [inbox EXCEPT ![p] = Tail(@)]
    /\ LET msg == Head(inbox[p]) IN
       /\ last_ping' = [last_ping EXCEPT ![p] =
                          IF msg.ftype \in {"Ping", "Pong"} THEN now ELSE @]
       /\ last_pong' = [last_pong EXCEPT ![p] =
                          IF msg.ftype \in {"Ping", "Pong"} THEN now ELSE @]
       /\ ws_pongs' = [ws_pongs EXCEPT ![p] =
                         IF msg.ftype = "Ping" THEN Append(@, msg.text) ELSE @]
       /\ IF WsThen(msg).err # ""
          THEN Fail(p, WsThen(msg).err)
          ELSE UNCHANGED <<kpc, result>>
    /\ UNCHANGED <<session_vars, pump_vars, exchange_vars, ws_vars, now,
                   ws_pings, ws_waits, psk, channel, joined, hello, wire,
                   my_private_key, peer_public_key, peer_sig, key_material,
                   sig_sent, rx_texts, candidates_tx, remote_candidates,
                   ice_rx_shut>>
    /\ UNCHANGED shut_vars

NextAgent ==
    \/ NextIce
    \/ \E p \in Peers :
        \/ IceNew(p)
        \/ IceHandshake(p)
        \/ IceHandshakeSkip(p)

SpecAgent == InitAgent /\ [][NextAgent]_vars

----------------------------------------------------------------------------
(* Claims on the handshake of the candidate exchange *)

\* C24: CandidateExchange::new sends "Icepipe", then takes the first text:
\* "Icepipe" lets it return, any other text is BadHandshake; candidates are
\* gathered only after it has returned, and after the sentinel nothing is
\* sent on signalling before the far end's "Icepipe" was received
C24_HandshakeFirst ==
    [][\A p \in Peers :
         /\ (kpc[p] = "ice_new" /\ kpc'[p] # kpc[p])
              => /\ sig_sent'[p] = Append(sig_sent[p], PROTOCOL_START)
                 /\ kpc'[p] = "ice_handshake"
         /\ (kpc[p] = "ice_handshake" /\ rx_texts'[p] > rx_texts[p])
              => IF Head(inbox[p]).text = PROTOCOL_START
                 THEN kpc'[p] = "ice_connect" /\ result'[p] = ""
                 ELSE kpc'[p] = "failed" /\ result'[p] = "BadHandshake"
         /\ (kpc'[p] = "ice_connect" /\ kpc[p] # "ice_connect")
              => /\ kpc[p] = "ice_handshake"
                 /\ inbox[p] # <<>>
                 /\ Head(inbox[p]) = Frame("Text", PROTOCOL_START)
         /\ gathered'[p] > gathered[p] => kpc[p] \notin HandshakeStates
         /\ (sig_sent'[p] # sig_sent[p] /\ kpc[p] # "ice_new")
              => kpc[p] \notin HandshakeStates
      ]_vars

\* after a Pong and the far end's "Icepipe", a gathered candidate was sent
C24_Witness ==
    /\ kpc["A"] \in IceStates
    /\ last_pong["A"] = now
    /\ relayed["A"] = 2
    /\ inbox["A"] = <<>>
    /\ ice_events = 0
    /\ sig_sent["A"] = <<PROTOCOL_START, CandidateText>>

\* the first text was not "Icepipe"
C24_BadHandshakeReached == result["A"] = "BadHandshake"
----------------------------------------------------------------------------
(* Claims on CandidateExchange::close *)

\* C25: what a peer sends after the agreement is "Icepipe", then candidates,
\* then "Close" as the last text: nothing is sent after "Close", also while
\* close drains
C25_SentOrder ==
    \A p \in Peers :
        \A i \in 1..Len(sig_sent[p]) :
            /\ sig_sent[p][i] = PROTOCOL_START <=> i = 1
            /\ sig_sent[p][i] = PROTOCOL_CLOSE => i = Len(sig_sent[p])

----------------------------------------------------------------------------
(* Claims on closing the candidate exchange *)

\* how many times p has sent "Close"
RECURSIVE CountClose(_)
CountClose(texts) ==
    IF texts = <<>> THEN 0
    ELSE (IF Head(texts) = PROTOCOL_CLOSE THEN 1 ELSE 0) + CountClose(Tail(texts))

C26_SendFailedReached ==
    \E p \in Peers :
        /\ kpc[p] = "failed"
        /\ result[p] = "Io"
        /\ ice_closes[p] > 0
        /\ ~ice_tx_shut[p]

\* the runtime keeps running each peer's close loop and the server keeps
\* relaying what the peers sent
FairSpecClose ==
    /\ SpecClose
    /\ \A p \in Peers :
        /\ WF_vars(IceCloseReturn(p))
        /\ WF_vars(ServerRelay(p))
        /\ WF_vars(IceWaitLeft(p))
        /\ WF_vars(IceWaitRight(p))
        /\ WF_vars(IceThen(p))

\* the server keeps both sockets open, so no wait and no send fails
SocketsStayOpen == \A p \in Peers : ~ws_closed[p]

\* both peers have called close
BothCalledClose == \A p \in Peers : ice_closes[p] > 0

\* both close calls have returned Ok(())
BothCloseReturned == \A p \in Peers : kpc[p] = "closed"

\* a peer leaves the loop of close only with rx_shut, which only the far
\* end's "Close" sets, or with an error
LeavesDrainOnlyOnClose ==
    \A p \in Peers :
        kpc[p] = "ice_closing" /\ kpc'[p] # "ice_closing" =>
            \/ /\ kpc'[p] = "closed"
               /\ ice_rx_shut[p]
               /\ \E i \in 1..Len(sig_sent[Other(p)]) :
                      sig_sent[Other(p)][i] = PROTOCOL_CLOSE
            \/ kpc'[p] = "failed"

\* C27: when both peers call close and no wait fails, both calls eventually
\* return Ok(()); a peer that closes alone stays in the loop of close until
\* the far end's "Close" has arrived or an error ends the call
C27_BothClosesReturn ==
    /\ []SocketsStayOpen => (BothCalledClose ~> BothCloseReturned)
    /\ [][LeavesDrainOnlyOnClose]_vars

\* both calls returned, each after it took the far end's "Close" from the
\* socket
C27_Witness ==
    /\ BothCloseReturned
    /\ \A p \in Peers : ice_rx_shut[p] /\ ice_tx_shut[p]

----------------------------------------------------------------------------
(* Claims on the order of the exchange *)

\* the candidates among the texts p has sent, in the order of sending
SentCandidates(p) == SelectSeq(sig_sent[p], Unmarshals)

\* local candidates are sent in the order the agent produced them
LocalCandidatesInOrder ==
    \A p \in Peers :
        \A i \in 1..Len(SentCandidates(p)) :
            SentCandidates(p)[i] = LocalCandidate(i)

\* after the handshake the socket's frames leave the queue only from its
\* head, one at a time, into the value that then is given next
TakenInReceiveOrder ==
    \A p \in Peers :
        (kpc[p] \in IceStates \cup CloseStates /\ inbox'[p] # inbox[p]) =>
            \/ \E f \in WsFrames \cup IceFrames : inbox'[p] = Append(inbox[p], f)
            \/ /\ inbox[p] # <<>>
               /\ inbox'[p] = Tail(inbox[p])
               /\ ce_value[p] = None
               /\ ce_value'[p] = Some(CeRight(Head(inbox[p])))

\* the value wait returned is handled by one step, which does to a text
\* what CandidateExchange::then does to it
HandledOnce ==
    \A p \in Peers :
        (ce_value[p] # None /\ ce_value'[p] # ce_value[p]) =>
            /\ ce_value'[p] = None
            /\ LET value == ce_value[p][1]
                   text == value[2].text
                   agent == kpc[p] \in {"ice_connect", "done"}
               IN  (value[1] = "Right" /\ value[2].ftype = "Text") =>
                     /\ rx_texts'[p] = rx_texts[p] + 1
                     /\ text = PROTOCOL_CLOSE =>
                            /\ ice_rx_shut'[p]
                            /\ remote_candidates'[p] = remote_candidates[p]
                            /\ kpc'[p] = kpc[p]
                     /\ (text # PROTOCOL_CLOSE /\ Unmarshals(text)) =>
                            /\ ice_rx_shut'[p] = ice_rx_shut[p]
                            /\ kpc'[p] = kpc[p]
                            /\ remote_candidates'[p] =
                                 remote_candidates[p] + (IF agent THEN 1 ELSE 0)
                     /\ (text # PROTOCOL_CLOSE /\ ~Unmarshals(text)) =>
                            /\ ice_rx_shut'[p] = ice_rx_shut[p]
                            /\ remote_candidates'[p] = remote_candidates[p]
                            /\ IF agent
                               THEN kpc'[p] = "failed" /\ result'[p] = "IceError"
                               ELSE kpc'[p] = kpc[p]

C28_DiscardReached ==
    /\ kpc["A"] = "closed"
    /\ remote_candidates["A"] = 0
    /\ rx_texts["A"] >= 2

----------------------------------------------------------------------------
(* connect of connect.rs: the IceAgent is a local of the function *)

InitDrop == InitSocketIn("ice_connect")

\* connect returns Ok(Chacha20Stream): Sctp::new was given net_conn and
\* agent.connection() only, so the IceAgent is dropped, and with it the
\* CandidateExchange, its candidate_rx and what is queued in it
ConnectReturns(p) ==
    /\ kpc[p] = "done"
    /\ kpc' = [kpc EXCEPT ![p] = "returned"]
    /\ candidate_rx' = [candidate_rx EXCEPT ![p] = <<>>]
    /\ UNCHANGED <<session_vars, pump_vars, timer_vars, ws_vars, shut_vars,
                   psk, channel, joined, hello, inbox, wire, my_private_key,
                   peer_public_key, peer_sig, key_material, result, sig_sent,
                   rx_texts, candidates_tx, remote_candidates, ice_rx_shut,
                   wait_pending, ce_value, gathered, relayed, lost_races>>

\* the on_candidate handler after the receiver is gone: send returns Err
\* and unwrap panics
OnCandidateDropped(p) ==
    /\ kpc[p] = "returned"
    /\ gathered[p] < MaxGathered
    /\ gathered' = [gathered EXCEPT ![p] = @ + 1]
    /\ callback_panics' = [callback_panics EXCEPT ![p] = @ + 1]
    /\ UNCHANGED <<session_vars, pump_vars, connect_vars, timer_vars, ws_vars,
                   ice_tx_shut, ice_closes, flow_vars, seq_vars, conv_vars,
                   candidate_rx,
                   wait_pending, ce_value, relayed, lost_races>>

\* IceAgent::connect pumps the exchange; between its return and the return
\* of connect nothing polls the exchange
NextDrop ==
    \E p \in Peers :
        \/ OnCandidate(p)
        \/ IceServerFrame(p)
        \/ kpc[p] = "ice_connect" /\ IceWaitPending(p)
        \/ kpc[p] = "ice_connect" /\ IceWaitLeft(p)
        \/ kpc[p] = "ice_connect" /\ IceWaitRight(p)
        \/ IceThen(p)
        \/ IceConnectResolves(p)
        \/ ConnectReturns(p)
        \/ OnCandidateDropped(p)

SpecDrop == InitDrop /\ [][NextDrop]_vars

\* C29: after IceAgent::connect has returned every candidate the agent
\* produced was sent or is still queued in the channel, and no candidate
\* callback has failed on a dropped receiver
C29_NoCandidateLost ==
    \A p \in Peers :
        /\ callback_panics[p] = 0
        /\ kpc[p] \in {"done", "returned"} =>
               gathered[p] = candidates_tx[p] + Len(candidate_rx[p])

----------------------------------------------------------------------------
(* Claims on the select! of IceAgent::connect *)

\* the runtime keeps polling the select! of IceAgent::connect, which picks
\* among its ready branches at random
FairSpecIce ==
    /\ SpecIce
    /\ \A p \in Peers :
        /\ SF_vars(IceWaitLeft(p))
        /\ SF_vars(IceWaitRight(p))
        /\ WF_vars(IceThen(p))

\* IceAgent::connect has not resolved
Connecting(p) == kpc[p] = "ice_connect"

\* some step of the select! loop can be taken: the connect future may
\* complete, or the pump takes or handles an event
ConnectCanStep(p) ==
    \/ ENABLED IceConnectResolves(p)
    \/ ENABLED IceWaitLeft(p)
    \/ ENABLED IceWaitRight(p)
    \/ ENABLED IceThen(p)

\* the pump, on its own, can take or handle whatever is there for it
PumpCanStep(p) ==
    \/ ENABLED IceWaitLeft(p)
    \/ ENABLED IceWaitRight(p)
    \/ ENABLED IceThen(p)

\* the one-slot channel is full: the next callback blocks in send
CallbackBlocked(p) == Len(candidate_rx[p]) = 1

\* C30: while IceAgent::connect has not resolved some step of its loop is
\* always possible, the pump is never stuck with an event at hand, and a
\* candidate callback blocked on the full one-slot channel is unblocked
\* (or connect ends) as long as the pump runs
C30_ConnectNoDeadlock ==
    /\ [](\A p \in Peers : Connecting(p) =>
            /\ ConnectCanStep(p)
            /\ (EventReady(p) \/ ce_value[p] # None) => PumpCanStep(p))
    /\ \A p \in Peers :
         (Connecting(p) /\ CallbackBlocked(p))
             ~> (~Connecting(p) \/ ~CallbackBlocked(p))

\* the pump of connect has emptied a full channel twice and connect is
\* still running
C30_Witness ==
    /\ Connecting("A")
    /\ candidates_tx["A"] = 2
    /\ candidate_rx["A"] = <<>>

----------------------------------------------------------------------------
(* SpecLayers: a connected pair of Connections whose owners send, receive
   and close while the ICE state changes *)

InitLayers == InitWatch

\* Chacha20Stream::send down to Sctp::send
LayerSend(p) ==
    /\ err[p] = ""
    /\ ~write_shutdown[p]
    /\ TotalSends < MaxSends
    /\ \E d \in Payloads : ChachaSend(p, d)
    /\ UNCHANGED <<basekey, dialer, sealing_key, opening_key, opening_seq,
                   write_shutdown, read_shutdown, sctp_vars, cpc, err,
                   delivered, close_vars, ice_events, pump_vars, connect_vars,
                   timer_vars, exchange_vars, ws_vars, shut_vars>>

\* Chacha20Stream::close down to Sctp::close
LayerClose(p) ==
    /\ err[p] = ""
    /\ TotalCloses < MaxCloses
    /\ SctpClose(p)
    /\ UNCHANGED <<basekey, dialer, crypto_vars, sctp_vars, cpc, err,
                   log_vars, ice_events, pump_vars, connect_vars, timer_vars,
                   exchange_vars, ws_vars, shut_vars>>

NextLayers ==
    \E p \in Peers :
        \/ WatcherPublish(p)
        \/ WatchRecv(p)
        \/ LayerSend(p)
        \/ LayerClose(p)

SpecLayers == InitLayers /\ [][NextLayers]_vars

----------------------------------------------------------------------------
(* Claims on Sctp::then *)

\* the AEAD layer of p was given bytes: open_in_place advanced the counter
GivenToAead(p) == opening_seq'[p] # opening_seq[p]

\* C31: Sctp::then returns Some only for a read of n > 0 bytes with PPID
\* Binary, and then the n bytes that were read; a read of zero bytes sets
\* rx_closed and yields None; a message with another PPID, the StringEmpty
\* probe of the setup among them, and a connection-state event yield None,
\* so none of them reaches the AEAD layer or is delivered
C31_ThenBinaryOnly ==
    [][\A p \in Peers :
         /\ GivenToAead(p) =>
              /\ ReadReady(p)
              /\ ReadMsg(p).ppid = "Binary"
              /\ ReadMsg(p).data.len > 0
              /\ buf'[p] = ReadMsg(p).data
              /\ buf'[p].len = ReadValue(p).n
         /\ (rx_closed'[p] /\ ~rx_closed[p]) =>
              /\ ReadReady(p)
              /\ ReadValue(p).n = 0
              /\ ~GivenToAead(p)
              /\ delivered'[p] = delivered[p]
         /\ (rxq[p] # <<>> /\ rxq'[p] = Tail(rxq[p])
               /\ Head(rxq[p]).ppid # "Binary") =>
              /\ ~GivenToAead(p)
              /\ delivered'[p] = delivered[p]
              /\ err'[p] = err[p]
         /\ (conn_changed[p] /\ ~conn_changed'[p]) =>
              /\ ~GivenToAead(p)
              /\ delivered'[p] = delivered[p]
              /\ rx_closed'[p] = rx_closed[p]
              /\ err'[p] = err[p]
      ]_vars

\* a peer has skipped the probe and a state event, delivered a payload and
\* read the end of the stream
C31_Witness ==
    \E p \in Peers :
        /\ rxq[p] = <<>>
        /\ ~conn_changed[p]
        /\ Len(delivered[p]) = 1
        /\ rx_closed[p]
        /\ err[p] = ""

----------------------------------------------------------------------------
(* Claims on Sctp::rx_closed *)

ClosedIceStates == {"Completed", "Failed", "Disconnected", "Closed"}
OpenIceStates == {"Unspecified", "New", "Checking", "Connected"}

\* C32: rx_closed() is true whenever the latest state on the watcher is
\* Completed, Failed, Disconnected or Closed, seen by a wait or not, and is
\* false while no read of zero bytes has happened and the latest state is
\* Unspecified, New, Checking or Connected
C32_RxClosedFollowsWatcher ==
    \A p \in Peers :
        /\ connection[p] \in ClosedIceStates \cup OpenIceStates
        /\ connection[p] \in ClosedIceStates => RxClosed(p)
        /\ (~rx_closed[p] /\ connection[p] \in OpenIceStates) => ~RxClosed(p)

\* the watcher holds Disconnected, which no wait has returned yet, and
\* later holds Connected again on a stream that has not ended
C32_Witness ==
    \E p \in Peers :
        /\ connection[p] = "Disconnected"
        /\ conn_changed[p]
        /\ ~rx_closed[p]
        /\ RxClosed(p)

\* the state went back to Connected and rx_closed() is false again
C32_ReopenedReached ==
    \E p \in Peers :
        /\ ice_events = 2
        /\ connection[p] = "Connected"
        /\ ~RxClosed(p)

----------------------------------------------------------------------------
(* SpecFlow: Sctp::send and Sctp::close of one peer against the buffered
   amount of its stream *)

\* sctp.rs: the buffered amount above which send sleeps, the sleep of the
\* loops, and the ceiling of the loop of close
SEND_HIGH_WATER == 4 * 1024 * 1024
SLEEP_MS == 100
CLOSE_MAX_WAIT_MS == 5000

\* a sleep ends on time or late
LateMs == 100
SleepTimes == {SLEEP_MS, SLEEP_MS + LateMs}

\* lengths passed to send: the largest message and half of it
FlowSizes == {MAX_MESSAGE_SIZE, MAX_MESSAGE_SIZE \div 2}
\* bytes the association gets acknowledged in one go
DrainSizes == {MAX_MESSAGE_SIZE \div 2, SEND_HIGH_WATER + MAX_MESSAGE_SIZE}

\* peer A holds a connected Sctp whose probe byte is still buffered
InitFlow ==
    /\ InitConnected /\ InitNoPump /\ InitNoConnect /\ InitTimers
    /\ InitChannel /\ InitNoSeq /\ InitNoConv
    /\ buffered = [p \in Peers |-> IF p = "A" THEN 1 ELSE 0]
    /\ fpc = [p \in Peers |-> IF p = "A" THEN "idle" ELSE "off"]
    /\ call_writes = [p \in Peers |-> 0]
    /\ last_write = [p \in Peers |-> None]
    /\ close_elapsed = [p \in Peers |-> 0]

FlowUnchanged ==
    UNCHANGED <<session_vars, pump_vars, connect_vars, timer_vars,
                exchange_vars, ws_vars, ice_tx_shut, ice_closes,
                callback_panics, seq_vars, conv_vars>>

\* a send that returns without looking at the buffered amount
SendMustWaitNever(p) == FALSE

\* Sctp::send: while self.stream.buffered_amount() > 4 * 1024 * 1024
SendMustWait(p) == buffered[p] > SEND_HIGH_WATER

\* a close that shuts down as soon as it is called
CloseMustWaitNever(p) == FALSE

\* Sctp::close: while buffered_amount() > 0 && Instant::now() < max_wait
CloseMustWait(p) == buffered[p] > 0 /\ close_elapsed[p] < CLOSE_MAX_WAIT_MS

\* Sctp::send is called: write_sctp queues the message
FlowSendCall(p) ==
    /\ fpc[p] = "idle"
    /\ \E n \in FlowSizes :
         /\ buffered' = [buffered EXCEPT ![p] = @ + n]
         /\ last_write' = [last_write EXCEPT ![p] =
                             Some(Msg("Binary", Bytes(NoKey, 0, <<>>, n)))]
    /\ call_writes' = [call_writes EXCEPT ![p] = 1]
    /\ fpc' = [fpc EXCEPT ![p] = "send_loop"]
    /\ UNCHANGED close_elapsed
    /\ FlowUnchanged

\* Sctp::send returns Ok(()): the loop has ended
FlowSendReturn(p) ==
    /\ fpc[p] = "send_loop"
    /\ ~SendMustWait(p)
    /\ fpc' = [fpc EXCEPT ![p] = "idle"]
    /\ UNCHANGED <<buffered, call_writes, last_write, close_elapsed>>
    /\ FlowUnchanged

\* the association sends buffered bytes and gets them acknowledged
FlowDrainBy(p, sizes) ==
    /\ fpc[p] # "off"
    /\ buffered[p] > 0
    /\ \E n \in sizes :
         buffered' = [buffered EXCEPT ![p] = IF n >= @ THEN 0 ELSE @ - n]
    /\ UNCHANGED <<fpc, call_writes, last_write, close_elapsed>>
    /\ FlowUnchanged

\* Sctp::close is called: max_wait = now + 5 s
FlowCloseCall(p) ==
    /\ fpc[p] = "idle"
    /\ fpc' = [fpc EXCEPT ![p] = "close_loop"]
    /\ close_elapsed' = [close_elapsed EXCEPT ![p] = 0]
    /\ UNCHANGED <<buffered, call_writes, last_write>>
    /\ FlowUnchanged

\* Sctp::close: one sleep of the loop
FlowCloseSleep(p) ==
    /\ fpc[p] = "close_loop"
    /\ CloseMustWait(p)
    /\ \E t \in SleepTimes :
         close_elapsed' = [close_elapsed EXCEPT ![p] = @ + t]
    /\ UNCHANGED <<buffered, fpc, call_writes, last_write>>
    /\ FlowUnchanged

\* Sctp::close: the loop has ended; the last sleep and stream.shutdown(Both)
FlowCloseShutdown(p) ==
    /\ fpc[p] = "close_loop"
    /\ ~CloseMustWait(p)
    /\ SctpClose(p)
    /\ fpc' = [fpc EXCEPT ![p] = "closed"]
    /\ UNCHANGED <<buffered, call_writes, last_write, close_elapsed>>
    /\ UNCHANGED <<basekey, dialer, crypto_vars, sctp_vars, cpc, err,
                   log_vars, ice_events, pump_vars, connect_vars, timer_vars,
                   exchange_vars, ws_vars, ice_tx_shut, ice_closes,
                   callback_panics, seq_vars, conv_vars>>

FlowDrain(p) == FlowDrainBy(p, DrainSizes)

NextFlow ==
    \E p \in Peers :
        \/ FlowSendCall(p)
        \/ FlowSendReturn(p)
        \/ FlowDrain(p)
        \/ FlowCloseCall(p)
        \/ FlowCloseSleep(p)
        \/ FlowCloseShutdown(p)

SpecFlow == InitFlow /\ [][NextFlow]_vars

----------------------------------------------------------------------------
(* Claims on Sctp::send and Sctp::close *)

\* C33: a call of Sctp::send makes one write_sctp, of a Binary message, and
\* returns Ok only with at most 4 MiB buffered; so, with calls awaited one
\* at a time, the buffered amount never exceeds 4 MiB plus one message
C33_SendBackpressure ==
    /\ [](\A p \in Peers :
            /\ buffered[p] <= SEND_HIGH_WATER + MAX_MESSAGE_SIZE
            /\ fpc[p] = "idle" => buffered[p] <= SEND_HIGH_WATER)
    /\ [][\A p \in Peers :
            (fpc[p] = "send_loop" /\ fpc'[p] = "idle") =>
                /\ call_writes[p] = 1
                /\ last_write[p] # None
                /\ last_write[p][1].ppid = "Binary"
                /\ buffered'[p] <= SEND_HIGH_WATER]_vars

\* a send is held in its loop above 4 MiB
C33_Witness ==
    /\ fpc["A"] = "send_loop"
    /\ buffered["A"] > SEND_HIGH_WATER

\* Sctp::close alone, called with any amount buffered that send can leave
\* behind, on an association that drains in large steps or not at all
IdleAmounts ==
    {0, 1, MAX_MESSAGE_SIZE, SEND_HIGH_WATER \div 2, SEND_HIGH_WATER}
CloseDrainSizes == {SEND_HIGH_WATER \div 4, SEND_HIGH_WATER + MAX_MESSAGE_SIZE}

InitFlowClose ==
    /\ InitConnected /\ InitNoPump /\ InitNoConnect /\ InitTimers
    /\ InitChannel /\ InitNoSeq /\ InitNoConv
    /\ \E n \in IdleAmounts :
         buffered = [p \in Peers |-> IF p = "A" THEN n ELSE 0]
    /\ fpc = [p \in Peers |-> IF p = "A" THEN "idle" ELSE "off"]
    /\ call_writes = [p \in Peers |-> 0]
    /\ last_write = [p \in Peers |-> None]
    /\ close_elapsed = [p \in Peers |-> 0]

NextFlowClose ==
    \E p \in Peers :
        \/ FlowDrainBy(p, CloseDrainSizes)
        \/ FlowCloseCall(p)
        \/ FlowCloseSleep(p)
        \/ FlowCloseShutdown(p)

SpecFlowClose == InitFlowClose /\ [][NextFlowClose]_vars

\* the runtime keeps running the loop of close; nothing obliges the
\* association to drain
FairSpecFlow ==
    /\ SpecFlowClose
    /\ \A p \in Peers :
        /\ WF_vars(FlowCloseSleep(p))
        /\ WF_vars(FlowCloseShutdown(p))

\* C34: Sctp::close always ends: it reaches stream.shutdown(Both) whether
\* the buffered amount drains or not, calls it only once the buffered
\* amount is 0 or the 5 s ceiling has passed, after one more 100 ms sleep,
\* and a ceiling that passed with bytes still buffered is not an error
C34_CloseTerminates ==
    /\ \A p \in Peers : fpc[p] = "close_loop" ~> fpc[p] = "closed"
    /\ [][\A p \in Peers :
            shutdown_calls'[p] # shutdown_calls[p] =>
                /\ fpc[p] = "close_loop"
                /\ buffered[p] = 0 \/ close_elapsed[p] >= CLOSE_MAX_WAIT_MS
                /\ shutdown_calls'[p] = shutdown_calls[p] + 1
                /\ close_sleeps'[p] = close_sleeps[p] + 1
                /\ closes'[p] = closes[p] + 1
                /\ err'[p] = err[p]]_vars

\* close returned Ok after the ceiling with bytes still buffered
C34_Witness ==
    /\ fpc["A"] = "closed"
    /\ buffered["A"] > 0
    /\ close_elapsed["A"] >= CLOSE_MAX_WAIT_MS
    /\ closes["A"] = 1
    /\ err["A"] = ""

\* close returned Ok at once on a drained stream
C34_DrainedReached ==
    /\ fpc["A"] = "closed"
    /\ buffered["A"] = 0
    /\ close_elapsed["A"] = 0

----------------------------------------------------------------------------
(* SpecTamper: a connected pair of Connections over a network that may
   modify, replay, reorder and reflect the records in flight *)

\* records the network may hold for one receiver
MaxInFlight == 3

\* a record whose bytes were altered: it verifies under no key
Forged(ct) == Bytes(<<"forged">>, ct.n, ct.pt, ct.len)

InitTamper == InitWatch

RECURSIVE InOrderFrom(_, _, _)
InOrderFrom(q, okey, seq) ==
    IF q = <<>> THEN TRUE
    ELSE IF Head(q).ppid # "Binary" THEN InOrderFrom(Tail(q), okey, seq)
    ELSE /\ Head(q).data.k = okey
         /\ Head(q).data.n = seq % U96
         /\ InOrderFrom(Tail(q), okey, (seq + 1) % U128)

\* the network has not yet touched the records in flight to p
Untouched(p) ==
    err[p] = "" /\ InOrderFrom(rxq[p], opening_key[p], opening_seq[p])

TamperUnchanged ==
    UNCHANGED <<basekey, dialer, crypto_vars, write_shutdown, read_shutdown,
                sctp_vars, cpc, err, log_vars, close_vars, ice_events,
                pump_vars, connect_vars, timer_vars, exchange_vars, ws_vars,
                shut_vars>>

\* the network alters the bytes of a record
NetModify(p) ==
    /\ Untouched(p)
    /\ \E i \in 1..Len(rxq[p]) :
         /\ rxq[p][i].ppid = "Binary"
         /\ rxq' = [rxq EXCEPT ![p][i] = Msg("Binary", Forged(@.data))]
    /\ TamperUnchanged

\* the network delivers a record a second time
NetReplay(p) ==
    /\ Untouched(p)
    /\ Len(rxq[p]) < MaxInFlight
    /\ \E i \in 1..Len(rxq[p]) :
         /\ rxq[p][i].ppid = "Binary"
         /\ rxq' = [rxq EXCEPT ![p] = Append(@, rxq[p][i])]
    /\ TamperUnchanged

\* the network swaps two records
NetReorder(p) ==
    /\ Untouched(p)
    /\ \E i \in 1..(Len(rxq[p]) - 1) :
         /\ rxq[p][i] # rxq[p][i + 1]
         /\ rxq' = [rxq EXCEPT ![p] =
                      [@ EXCEPT ![i] = rxq[p][i + 1], ![i + 1] = rxq[p][i]]]
    /\ TamperUnchanged

\* the network hands a peer a record that this peer sealed
NetReflect(p) ==
    /\ Untouched(p)
    /\ Len(rxq[p]) < MaxInFlight
    /\ \E i \in 1..Len(rxq[Other(p)]) :
         /\ rxq[Other(p)][i].ppid = "Binary"
         /\ rxq' = [rxq EXCEPT ![p] = Append(@, rxq[Other(p)][i])]
    /\ TamperUnchanged

NextTamper ==
    \E p \in Peers :
        \/ LayerSend(p)
        \/ WatchRecv(p)
        \/ NetModify(p)
        \/ NetReplay(p)
        \/ NetReorder(p)
        \/ NetReflect(p)

SpecTamper == InitTamper /\ [][NextTamper]_vars

----------------------------------------------------------------------------
(* Claims on Chacha20Stream::then *)

\* the record authenticates under p's opening key and current opening nonce
Authentic(p, ct) ==
    /\ ct.len >= TagLen
    /\ ct.k = opening_key[p]
    /\ ct.n = opening_seq[p] % U96

\* the step hands the record at the head of p's stream to Chacha20Stream
OpensRecord(p) ==
    /\ rxq[p] # <<>>
    /\ rxq'[p] = Tail(rxq[p])
    /\ Head(rxq[p]).ppid = "Binary"
    /\ Head(rxq[p]).data.len > 0

\* C35: Chacha20Stream::then returns a plaintext only for a ciphertext the
\* layer below returned and that authenticates under the opening key and
\* the current opening nonce; a record that does not (modified, replayed,
\* reordered, or sealed by this peer itself) gives CryptoError and no
\* plaintext; a None from below is passed on and leaves the opening
\* counter alone. So what is delivered is always a prefix of what the far
\* end sent
C35_OpenOrCryptoError ==
    /\ [][\A p \in Peers :
            /\ delivered'[p] # delivered[p] =>
                 /\ OpensRecord(p)
                 /\ Authentic(p, Head(rxq[p]).data)
                 /\ delivered'[p] = Append(delivered[p], Head(rxq[p]).data.pt)
                 /\ err'[p] = ""
            /\ (OpensRecord(p) /\ ~Authentic(p, Head(rxq[p]).data)) =>
                 /\ err'[p] = "CryptoError"
                 /\ delivered'[p] = delivered[p]
            /\ (err'[p] = "CryptoError" /\ err[p] = "") =>
                 OpensRecord(p) /\ ~Authentic(p, Head(rxq[p]).data)
            /\ ((conn_changed[p] /\ ~conn_changed'[p])
                  \/ (rxq[p] # <<>> /\ rxq'[p] = Tail(rxq[p])
                        /\ ~OpensRecord(p))) =>
                 /\ opening_seq'[p] = opening_seq[p]
                 /\ delivered'[p] = delivered[p]
                 /\ err'[p] = err[p]
       ]_vars
    /\ [](\A p \in Peers : IsPrefix(delivered[p], sent[Other(p)]))

\* a peer delivered the first record and refused the replay of it
C35_Witness ==
    \E p \in Peers :
        /\ Len(delivered[p]) = 1
        /\ err[p] = "CryptoError"
        /\ Len(sent[Other(p)]) = 1

\* a peer refused a record it had sealed itself
C35_ReflectedRefused ==
    \E p \in Peers :
        /\ sent[Other(p)] = <<>>
        /\ Len(sent[p]) = 1
        /\ err[p] = "CryptoError"

\* a peer refused the second record delivered before the first
C35_ReorderedRefused ==
    \E p \in Peers :
        /\ Len(sent[Other(p)]) = 2
        /\ delivered[p] = <<>>
        /\ err[p] = "CryptoError"
        /\ Len(rxq[p]) = 1
        /\ Authentic(p, Head(rxq[p]).data)

----------------------------------------------------------------------------
(* SpecSeq: one Sequential nonce sequence started from any 128-bit seed and
   advanced repeatedly *)

\* a run of fewer than 2^96 advances
MaxAdvances == U96 - 1

\* `self.0 += 1` on a u128: the sum, or an overflow at u128::MAX
AddOverflows(seq) == seq + 1 >= U128

InitSeq ==
    /\ InitConnected /\ InitNoPump /\ InitNoConnect /\ InitTimers
    /\ InitChannel /\ InitNoFlow /\ InitNoConv
    /\ seq_counter \in 0..(U128 - 1)
    /\ seq_nonces = <<>>
    /\ seq_panicked = FALSE

SeqUnchanged ==
    UNCHANGED <<session_vars, pump_vars, connect_vars, timer_vars,
                exchange_vars, ws_vars, ice_tx_shut, ice_closes,
                callback_panics, flow_vars, conv_vars>>

\* Sequential::advance returns Ok(nonce): the addition gave a value (a build
\* without overflow checks wraps at u128::MAX)
SeqAdvanceReturns ==
    /\ ~seq_panicked
    /\ Len(seq_nonces) < MaxAdvances
    /\ seq_nonces' = Append(seq_nonces, AdvanceNonce(seq_counter))
    /\ seq_counter' = AdvanceNext(seq_counter)
    /\ UNCHANGED seq_panicked
    /\ SeqUnchanged

\* Sequential::advance in a build with overflow checks: `self.0 += 1` panics
\* at u128::MAX, before a nonce is returned
SeqAdvancePanics ==
    /\ ~seq_panicked
    /\ Len(seq_nonces) < MaxAdvances
    /\ AddOverflows(seq_counter)
    /\ seq_panicked' = TRUE
    /\ UNCHANGED <<seq_counter, seq_nonces>>
    /\ SeqUnchanged

NextSeq == SeqAdvanceReturns \/ SeqAdvancePanics

SpecSeq == InitSeq /\ [][NextSeq]_vars

----------------------------------------------------------------------------
(* Claims on Sequential::advance *)

\* every advance that returns emits the low 96 bits of the counter and
\* adds exactly 1 to the counter
C36_EmitsLowBitsAndIncrements ==
    [][seq_nonces' # seq_nonces =>
         /\ seq_nonces' = Append(seq_nonces, seq_counter % U96)
         /\ seq_counter' = (seq_counter + 1) % U128
         /\ seq_counter + 1 < U128 => seq_counter' = seq_counter + 1]_vars

\* the nonces of a run of fewer than 2^96 advances are pairwise distinct
C36_NoncesDistinct ==
    \A i, j \in 1..Len(seq_nonces) :
        i # j => seq_nonces[i] # seq_nonces[j]

\* C36: each Sequential::advance emits the low 96 bits of the counter and
\* then adds exactly 1 to it; the nonces of fewer than 2^96 consecutive
\* advances are pairwise distinct; and no advance fails or panics because
\* the counter is at its maximum value
C36_AdvanceNeverPanics ==
    /\ C36_EmitsLowBitsAndIncrements
    /\ []C36_NoncesDistinct
    /\ [](~seq_panicked)

\* a run went through the maximum counter value and on, nonces distinct
C36_WrapReached ==
    /\ ~seq_panicked
    /\ Len(seq_nonces) = MaxAdvances
    /\ seq_counter < MaxAdvances

----------------------------------------------------------------------------
(* SpecErrors: an error raised by the signalling layer carried through the
   From conversions between the error types of the layers *)

\* an error value: variant v, io::ErrorKind k of an Io, wrapped error e
ErrV(v) == [v |-> v, k |-> "", e |-> <<>>]
ErrIo(k) == [v |-> "Io", k |-> k, e |-> <<>>]
ErrWrap(v, e) == [v |-> v, k |-> "", e |-> e]

\* tungstenite::Error variants, and the kinds of its Io(e)
TungsteniteKinds ==
    {"ConnectionClosed", "AlreadyClosed", "Tls", "Capacity", "Protocol",
     "SendQueueFull", "Utf8", "Url", "Http", "HttpFormat"}
IoKinds == {"BrokenPipe", "UnexpectedEof"}

WebsocketErrors ==
    {ErrV("Timeout"), ErrV("ProtocolError")}
      \cup {ErrWrap("WebsocketError", ErrV(t)) : t \in TungsteniteKinds}
      \cup {ErrWrap("WebsocketError", ErrIo(k)) : k \in IoKinds}

\* impl From<TungsteniteError> for SignalingError
TungsteniteToSignaling(t) ==
    CASE t.v = "Io" -> ErrIo(t.k)
      [] t.v \in {"ConnectionClosed", "AlreadyClosed"} -> ErrIo("ConnectionReset")
      [] t.v = "Tls" -> ErrIo("Other")
      [] t.v \in {"Capacity", "SendQueueFull"} -> ErrIo("OutOfMemory")
      [] t.v = "Url" -> ErrIo("InvalidInput")
      [] t.v \in {"Utf8", "Http", "HttpFormat"} -> ErrIo("InvalidData")
      [] OTHER -> ErrV("ProtocolError")

\* impl From<WebsocketError> for SignalingError
WebsocketToSignaling(w) ==
    CASE w.v = "Timeout" -> ErrV("Timeout")
      [] w.v = "WebsocketError" -> TungsteniteToSignaling(w.e)
      [] OTHER -> ErrV("ProtocolError")

\* From<SignalingError> for AgreementError, IceError, SctpError,
\* Chacha20Error, ConnectError: Io and Timeout keep their variant
SignalingToLayer(s) ==
    IF s.v \in {"Io", "Timeout"} THEN s ELSE ErrWrap("SignalingError", s)

\* From<SignalingError> for StreamError
SignalingToStream(s) == SignalingToLayer(s)

\* impl From<AgreementError> for ConnectError
AgreementToConnect(a) ==
    CASE a.v \in {"Io", "Timeout"} -> a
      [] a.v = "SignalingError" -> SignalingToLayer(a.e)
      [] OTHER -> ErrWrap("AgreementError", a)

\* impl From<IceError> for StreamError
IceToStream(i) ==
    CASE i.v \in {"Io", "Timeout"} -> i
      [] i.v = "SignalingError" -> SignalingToStream(i.e)
      [] OTHER -> ErrWrap("Other", i)

\* impl From<IceError> for ConnectError: Self::StreamError(value.into())
IceToConnect(i) == ErrWrap("StreamError", IceToStream(i))

\* From<StreamError> for ConnectError, SctpError, Chacha20Error
StreamToLayer(x) ==
    CASE x.v \in {"Io", "Timeout"} -> x
      [] x.v = "SignalingError" -> SignalingToLayer(x.e)
      [] OTHER -> ErrWrap("StreamError", x)

\* From<SctpError> for StreamError, From<Chacha20Error> for StreamError
LayerToStream(x) ==
    CASE x.v \in {"Io", "Timeout"} -> x
      [] x.v = "SignalingError" -> SignalingToStream(x.e)
      [] x.v = "StreamError" -> x.e
      [] OTHER -> ErrWrap("Other", x)

\* impl From<SctpError> for ConnectError
SctpToConnect(x) ==
    CASE x.v \in {"Io", "Timeout"} -> x
      [] x.v = "SignalingError" -> SignalingToLayer(x.e)
      [] OTHER -> ErrWrap("SctpError", x)

\* impl From<Chacha20Error> for ConnectError
ChachaToConnect(x) ==
    CASE x.v \in {"Io", "Timeout"} -> x
      [] x.v = "SignalingError" -> SignalingToLayer(x.e)
      [] x.v = "StreamError" -> StreamToLayer(x.e)
      [] OTHER -> ErrWrap("Chacha20Error", x)

\* impl From<ConnectError> for StreamError
ConnectToStream(x) ==
    CASE x.v \in {"Io", "Timeout"} -> x
      [] x.v = "SignalingError" -> SignalingToStream(x.e)
      [] x.v = "StreamError" -> x.e
      [] x.v \in {"SctpError", "Chacha20Error"} -> LayerToStream(x.e)
      [] OTHER -> ErrWrap("Other", x)

\* the kind of what the signalling layer raised
RaisedKind(w) ==
    CASE w.v = "Timeout" -> "Timeout"
      [] w.v = "WebsocketError" /\ w.e.v # "Protocol" -> "Io"
      [] OTHER -> "Protocol"

InitErrors ==
    /\ InitConnected /\ InitNoPump /\ InitNoConnect /\ InitTimers
    /\ InitChannel /\ InitNoFlow /\ InitNoSeq
    /\ conv_layer = "WebsocketError"
    /\ conv_error \in WebsocketErrors
    /\ conv_origin = RaisedKind(conv_error)

\* one `?` or .into() from one error type to another
Convert(from, to, F(_)) ==
    /\ conv_layer = from
    /\ conv_layer' = to
    /\ conv_error' = F(conv_error)
    /\ UNCHANGED <<conv_origin, session_vars, pump_vars, connect_vars,
                   timer_vars, exchange_vars, ws_vars, ice_tx_shut, ice_closes,
                   callback_panics, flow_vars, seq_vars>>

WebsocketIntoSignaling ==
    Convert("WebsocketError", "SignalingError", WebsocketToSignaling)
SignalingIntoAgreement ==
    Convert("SignalingError", "AgreementError", SignalingToLayer)
SignalingIntoIce == Convert("SignalingError", "IceError", SignalingToLayer)
SignalingIntoSctp == Convert("SignalingError", "SctpError", SignalingToLayer)
SignalingIntoChacha ==
    Convert("SignalingError", "Chacha20Error", SignalingToLayer)
SignalingIntoConnect ==
    Convert("SignalingError", "ConnectError", SignalingToLayer)
SignalingIntoStream ==
    Convert("SignalingError", "StreamError", SignalingToStream)
AgreementIntoConnect ==
    Convert("AgreementError", "ConnectError", AgreementToConnect)
IceIntoStream == Convert("IceError", "StreamError", IceToStream)
IceIntoConnect == Convert("IceError", "ConnectError", IceToConnect)
StreamIntoConnect == Convert("StreamError", "ConnectError", StreamToLayer)
StreamIntoSctp == Convert("StreamError", "SctpError", StreamToLayer)
StreamIntoChacha == Convert("StreamError", "Chacha20Error", StreamToLayer)
SctpIntoStream == Convert("SctpError", "StreamError", LayerToStream)
SctpIntoConnect == Convert("SctpError", "ConnectError", SctpToConnect)
ChachaIntoStream == Convert("Chacha20Error", "StreamError", LayerToStream)
ChachaIntoConnect == Convert("Chacha20Error", "ConnectError", ChachaToConnect)
ConnectIntoStream == Convert("ConnectError", "StreamError", ConnectToStream)

NextErrors ==
    \/ WebsocketIntoSignaling
    \/ SignalingIntoAgreement
    \/ SignalingIntoIce
    \/ SignalingIntoSctp
    \/ SignalingIntoChacha
    \/ SignalingIntoConnect
    \/ SignalingIntoStream
    \/ AgreementIntoConnect
    \/ IceIntoStream
    \/ IceIntoConnect
    \/ StreamIntoConnect
    \/ StreamIntoSctp
    \/ StreamIntoChacha
    \/ SctpIntoStream
    \/ SctpIntoConnect
    \/ ChachaIntoStream
    \/ ChachaIntoConnect
    \/ ConnectIntoStream

SpecErrors == InitErrors /\ [][NextErrors]_vars

----------------------------------------------------------------------------
(* Claims on the error conversions *)

\* C37: a Timeout raised by the signalling layer is the Timeout variant of
\* the error type of every layer it is converted to, never a wrapped
\* SignalingError, StreamError or Other; likewise an Io error is the Io
\* variant at every layer
C37_KindKept ==
    conv_layer # "WebsocketError" =>
        /\ conv_origin = "Timeout" => conv_error.v = "Timeout"
        /\ conv_origin = "Io" => conv_error.v = "Io"

\* the conversions written in the claim, taken one at a time from the
\* SignalingError, keep Timeout and Io
C37_DirectKept ==
    [][conv_layer = "SignalingError" /\ conv_origin \in {"Timeout", "Io"} =>
         conv_error'.v = conv_origin /\ conv_error.v = conv_origin]_vars

\* a ping timeout that went through IceError is a ConnectError::StreamError
C37_WrappedTimeoutReached ==
    /\ conv_layer = "ConnectError"
    /\ conv_origin = "Timeout"
    /\ conv_error.v = "StreamError"
    /\ conv_error.e.v = "Timeout"

----------------------------------------------------------------------------
(* SpecAuth: two peers that have sent their public key and signature, with
   any PSKs and any roles, and a server that hands each of them the pair of
   either peer *)

\* the role frame Websocket::new read
RoleFrame(d) == Frame("Text", StrText(IF d THEN "DIALER" ELSE "LISTENER"))

\* what agree sent: the public key and its signature, base64 texts
SentPair(base, role, sk) ==
    <<B64Encode(compute_public_key(sk)),
      B64Encode(sign(base, role, compute_public_key(sk)))>>

InitAuth ==
    /\ basekey = [p \in Peers |-> 1]
    /\ dialer \in [Peers -> BOOLEAN]
    /\ InitStreams /\ InitNoPump /\ InitTimers /\ InitExchange
    /\ psk \in [Peers -> PSKs]
    /\ my_private_key \in [Peers -> PrivateKeys]
    /\ channel = [p \in Peers |-> Some(ChannelName(psk[p]))]
    /\ joined = [p \in Peers |-> TRUE]
    /\ hello = [p \in Peers |-> Some(RoleFrame(dialer[p]))]
    /\ inbox = [p \in Peers |-> <<>>]
    /\ wire = [p \in Peers |-> <<>>]
    /\ kpc = [p \in Peers |-> "recv_pk"]
    /\ peer_public_key = [p \in Peers |-> None]
    /\ peer_sig = [p \in Peers |-> None]
    /\ key_material = [p \in Peers |-> None]
    /\ result = [p \in Peers |-> ""]
    /\ sig_sent = [p \in Peers |->
                     SentPair(psk[p], dialer[p], my_private_key[p])]
    /\ rx_texts = [p \in Peers |-> 0]
    /\ candidates_tx = [p \in Peers |-> 0]
    /\ remote_candidates = [p \in Peers |-> 0]
    /\ ice_rx_shut = [p \in Peers |-> FALSE]

\* the server hands p the two texts q sent; q = p is the reflection
ServerPresents(p, q) ==
    /\ kpc[p] = "recv_pk"
    /\ inbox[p] = <<>>
    /\ inbox' = [inbox EXCEPT ![p] =
                   <<Frame("Text", sig_sent[q][1]), Frame("Text", sig_sent[q][2])>>]
    /\ UNCHANGED <<dialer, session_rest, pump_vars, psk, channel, joined,
                   hello, wire, kpc, my_private_key, peer_public_key, peer_sig,
                   key_material, result, sig_sent, rx_texts, candidates_tx,
                   remote_candidates, ice_rx_shut>>
    /\ UNCHANGED <<timer_vars, exchange_vars, ws_vars, shut_vars>>

NextAuth ==
    \E p \in Peers :
        \/ \E q \in Peers : ServerPresents(p, q)
        \/ AgreeRecvPk(p)
        \/ AgreeRecvSig(p)

SpecAuth == InitAuth /\ [][NextAuth]_vars

----------------------------------------------------------------------------
(* Claims on PskAuthentication *)

\* p has checked the pair that q produced
CheckedPairOf(p, q) ==
    /\ rx_texts[p] = 2
    /\ peer_public_key[p] = Some(B64Decode(sig_sent[q][1]))
    /\ peer_sig[p] = Some(B64Decode(sig_sent[q][2]))

\* C38: a peer signs with the key of its own role and verifies with the key
\* of the opposite role: the (public key, signature) pair a peer produced is
\* refused with BadAuth by that same peer and by any peer of the same role,
\* and is accepted only by a peer with the same PSK and the opposite role
C38_RoleSeparated ==
    \A p, q \in Peers :
        CheckedPairOf(p, q) =>
            IF psk[p] = psk[q] /\ dialer[p] # dialer[q]
            THEN result[p] = "" /\ key_material[p] # None
            ELSE result[p] = "BadAuth" /\ key_material[p] = None

\* one peer refused its own pair reflected back, the other, of the opposite
\* role and the same PSK, accepted that pair
C38_Witness ==
    \E p \in Peers :
        /\ CheckedPairOf(p, p)
        /\ result[p] = "BadAuth"
        /\ CheckedPairOf(Other(p), p)
        /\ key_material[Other(p)] # None
        /\ psk[p] = psk[Other(p)]

\* a peer of the same role and the same PSK refused the pair
C38_SameRoleRefused ==
    \E p \in Peers :
        /\ CheckedPairOf(p, Other(p))
        /\ sig_sent[p] # sig_sent[Other(p)]
        /\ psk[p] = psk[Other(p)]
        /\ dialer[p] = dialer[Other(p)]
        /\ result[p] = "BadAuth"

----------------------------------------------------------------------------
(* SpecAgreeLive: Agreement::agree receiving on peer A, peer B having agreed
   already, while the server relays B's texts, sends Ping and Pong frames of
   its own, and the ping timer runs *)

\* agree stands in signalling_recv
Receiving(p) == kpc[p] \in {"recv_pk", "recv_sig"}

ControlFrames == {Frame("Ping", StrText("k")), Frame("Pong", StrText(""))}

RECURSIVE CountControl(_)
CountControl(q) ==
    IF q = <<>> THEN 0
    ELSE (IF Head(q).ftype # "Text" THEN 1 ELSE 0) + CountControl(Tail(q))

\* the pair peer p sent
PairOf(p) == SentPair("p1", p = "A", IF p = "A" THEN 1 ELSE 2)

InitAgreeLive ==
    /\ InitSession /\ basekey["A"] = 1
    /\ InitNoPump /\ InitTimers /\ InitExchange
    /\ psk = [p \in Peers |-> "p1"]
    /\ my_private_key = [p \in Peers |-> IF p = "A" THEN 1 ELSE 2]
    /\ channel = [p \in Peers |-> Some(ChannelName(psk[p]))]
    /\ joined = [p \in Peers |-> TRUE]
    /\ hello = [p \in Peers |-> Some(RoleFrame(dialer[p]))]
    /\ inbox = [p \in Peers |-> <<>>]
    /\ wire = [p \in Peers |-> IF p = "B" THEN PairOf("B") ELSE <<>>]
    /\ sig_sent = [p \in Peers |-> PairOf(p)]
    /\ kpc = [p \in Peers |->
                IF p = "A" THEN "recv_pk" ELSE AfterAgreeStep("recv_sig")]
    /\ peer_public_key = [p \in Peers |->
                IF p = "A" THEN None ELSE Some(B64Decode(PairOf("A")[1]))]
    /\ peer_sig = [p \in Peers |->
                IF p = "A" THEN None ELSE Some(B64Decode(PairOf("A")[2]))]
    /\ key_material = [p \in Peers |->
                IF p = "A" THEN None
                ELSE agree_ephemeral(2, compute_public_key(1))]
    /\ result = [p \in Peers |-> ""]
    /\ rx_texts = [p \in Peers |-> IF p = "A" THEN 0 ELSE 2]
    /\ candidates_tx = [p \in Peers |-> 0]
    /\ remote_candidates = [p \in Peers |-> 0]
    /\ ice_rx_shut = [p \in Peers |-> FALSE]

AgreeLiveUnchanged ==
    UNCHANGED <<session_vars, pump_vars, exchange_vars, ws_vars, shut_vars,
                psk, channel, joined, hello, wire, my_private_key,
                peer_public_key, peer_sig, key_material, sig_sent, rx_texts,
                candidates_tx, remote_candidates, ice_rx_shut>>

\* the server sends a Ping or a Pong of its own
ServerLiveness(p) ==
    /\ Receiving(p)
    /\ ws_waits[p] - ws_pings[p] + CountControl(inbox[p]) < MaxWsFrames
    /\ \E f \in ControlFrames : inbox' = [inbox EXCEPT ![p] = Append(@, f)]
    /\ UNCHANGED <<kpc, result, timer_vars>>
    /\ AgreeLiveUnchanged

\* signalling_recv: wait gives a frame that is not text; Websocket::then
\* answers a Ping, returns None (or the error), and the loop continues
AgreeSkipFrame(p) ==
    /\ Receiving(p)
    /\ inbox[p] # <<>>
    /\ Head(inbox[p]).ftype # "Text"
    /\ inbox' = [inbox EXCEPT ![p] = Tail(@)]
    /\ ws_waits' = [ws_waits EXCEPT ![p] = @ + 1]
    /\ LET msg == Head(inbox[p])
           r == WsThen(msg)
       IN
       /\ last_ping' = [last_ping EXCEPT ![p] =
                          IF msg.ftype \in {"Ping", "Pong"} THEN now ELSE @]
       /\ last_pong' = [last_pong EXCEPT ![p] =
                          IF msg.ftype \in {"Ping", "Pong"} THEN now ELSE @]
       /\ ws_pongs' = [ws_pongs EXCEPT ![p] =
                         IF msg.ftype = "Ping" THEN Append(@, msg.text) ELSE @]
       /\ IF r.err # ""
          THEN Fail(p, r.err)
          ELSE UNCHANGED <<kpc, result>>
    /\ UNCHANGED <<now, ws_pings>>
    /\ AgreeLiveUnchanged

\* signalling_recv: wait takes the ping timer; Websocket::then sends a Ping
\* and returns None, and the loop continues
AgreePingTimer(p) ==
    /\ Receiving(p)
    /\ PingReady(p)
    /\ ws_waits' = [ws_waits EXCEPT ![p] = @ + 1]
    /\ last_ping' = [last_ping EXCEPT ![p] = AfterPingTimer(p).last_ping]
    /\ last_pong' = [last_pong EXCEPT ![p] = AfterPingTimer(p).last_pong]
    /\ ws_pings' = [ws_pings EXCEPT ![p] = @ + 1]
    /\ UNCHANGED <<now, ws_pongs, inbox, kpc, result>>
    /\ AgreeLiveUnchanged

\* signalling_recv: wait takes the pong timeout
AgreePongTimeout(p) ==
    /\ Receiving(p)
    /\ PongTimeoutReady(p)
    /\ Fail(p, "Timeout")
    /\ UNCHANGED <<timer_vars, inbox>>
    /\ AgreeLiveUnchanged

\* the clock advances while no branch of a pending wait is ready, and not
\* beyond the next deadline of a pending wait
AgreeTimePasses ==
    /\ \E p \in Peers : Receiving(p)
    /\ \A p \in Peers :
         Receiving(p) =>
           inbox[p] = <<>> /\ ~PingReady(p) /\ ~PongTimeoutReady(p)
    /\ \E t \in Instants :
         /\ t > now
         /\ \A p \in Peers :
              Receiving(p) =>
                t <= last_ping[p] + PING_SECS /\ t <= last_pong[p] + PONG_SECS
         /\ now' = t
    /\ UNCHANGED <<last_ping, last_pong, ws_pings, ws_pongs, ws_waits, inbox,
                   kpc, result>>
    /\ AgreeLiveUnchanged

NextAgreeLive ==
    \/ AgreeTimePasses
    \/ \E p \in Peers :
        \/ ServerRelay(p)
        \/ ServerLiveness(p)
        \/ AgreeRecvPk(p)
        \/ AgreeRecvSig(p)
        \/ AgreeSkipFrame(p)
        \/ AgreePingTimer(p)
        \/ AgreePongTimeout(p)

SpecAgreeLive == InitAgreeLive /\ [][NextAgreeLive]_vars

----------------------------------------------------------------------------
(* Claims on agree under liveness traffic *)

\* the step takes a liveness event: a frame that is not text, or a timer
TakesLiveness(p) == ws_waits'[p] # ws_waits[p]

\* what agree holds of the far end
AgreeState(p) ==
    <<peer_public_key[p], peer_sig[p], key_material[p], rx_texts[p]>>

\* C39: Ping frames, Pong frames and ping-timer events that arrive while
\* agree is receiving are skipped, a Ping being answered with a Pong of the
\* same payload, and are never taken as the public key or the signature:
\* the two values agree uses are the first two text messages received, in
\* order, and the key material is the one agreed without such traffic
C39_LivenessSkipped ==
    /\ [][\A p \in Peers :
            /\ TakesLiveness(p) =>
                 /\ AgreeState(p)' = AgreeState(p)
                 /\ kpc'[p] = kpc[p] /\ result'[p] = result[p]
                 /\ (inbox'[p] # inbox[p] /\ Head(inbox[p]).ftype = "Ping") =>
                      ws_pongs'[p] = Append(ws_pongs[p], Head(inbox[p]).text)
            /\ AgreeState(p)' # AgreeState(p) =>
                 /\ inbox[p] # <<>>
                 /\ Head(inbox[p]).ftype = "Text"
                 /\ inbox'[p] = Tail(inbox[p])
                 /\ rx_texts'[p] = rx_texts[p] + 1
                 /\ rx_texts[p] = 0 =>
                      /\ peer_public_key'[p] = Some(B64Decode(Head(inbox[p]).text))
                      /\ peer_sig'[p] = None
                 /\ rx_texts[p] = 1 =>
                      /\ peer_sig'[p] = Some(B64Decode(Head(inbox[p]).text))
                      /\ peer_public_key'[p] = peer_public_key[p]
       ]_vars
    /\ [](\A p \in Peers :
            rx_texts[p] = 2 =>
                /\ peer_public_key[p] = Some(B64Decode(sig_sent[Other(p)][1]))
                /\ peer_sig[p] = Some(B64Decode(sig_sent[Other(p)][2]))
                /\ key_material[p] =
                     agree_ephemeral(my_private_key[p],
                                     compute_public_key(my_private_key[Other(p)]))
                /\ result[p] = "")

\* a peer agreed after answering a Ping frame and after its ping timer fired
C39_Witness ==
    \E p \in Peers :
        /\ key_material[p] # None
        /\ ws_pings[p] >= 1
        /\ ws_pongs[p] = <<StrText("k")>>
        /\ key_material[Other(p)] = key_material[p]

\* a liveness event was taken between the public key and the signature
C39_BetweenReached ==
    \E p \in Peers :
        /\ rx_texts[p] = 1
        /\ ws_waits[p] = 1
        /\ inbox[p] # <<>> /\ Head(inbox[p]).ftype = "Text"
        /\ last_pong[p] > 0

----------------------------------------------------------------------------
(* Claims on the nonce counters of the two ends (SpecLayers) *)

\* the counters Chacha20Stream::new gave p
SealSeed(p) == Chacha20New(basekey[p], dialer[p]).sealing_seq
OpenSeed(p) == Chacha20New(basekey[p], dialer[p]).opening_seq

\* the step takes a message that is not Binary, or a connection-state event
TakesNoRecord(p) ==
    \/ conn_changed[p] /\ ~conn_changed'[p]
    \/ /\ rxq[p] # <<>>
       /\ rxq'[p] = Tail(rxq[p])
       /\ Head(rxq[p]).ppid # "Binary"

\* C40: while a session has no error, the opening counter of a receiver is
\* its seed plus the number of payloads it has delivered, the sealing
\* counter of a sender is its seed plus the number of records it has handed
\* down, so the k-th record is opened with the nonce it was sealed with;
\* messages that are not Binary and connection-state events advance
\* neither counter
C40_NonceSync ==
    /\ [](\A p \in Peers :
            /\ sealing_seq[p] = (SealSeed(p) + Len(sent[p])) % U128
            /\ err[p] = "" =>
                 opening_seq[p] = (OpenSeed(p) + Len(delivered[p])) % U128)
    /\ [][\A p \in Peers :
            /\ delivered'[p] # delivered[p] =>
                 LET k == Len(delivered[p]) + 1
                     ct == Head(rxq[p]).data
                 IN /\ ct.n = opening_seq[p] % U96
                    /\ ct.n = ((SealSeed(Other(p)) + k - 1) % U128) % U96
                    /\ ct.pt = sent[Other(p)][k]
                    /\ delivered'[p] = Append(delivered[p], ct.pt)
            /\ TakesNoRecord(p) =>
                 /\ opening_seq'[p] = opening_seq[p]
                 /\ sealing_seq'[p] = sealing_seq[p]
       ]_vars

\* a receiver took the probe and a state event and delivered two records,
\* its opening counter level with the sender's sealing counter
C40_Witness ==
    \E p \in Peers :
        /\ err[p] = ""
        /\ Len(delivered[p]) = 2
        /\ rxq[p] = <<>>
        /\ ~conn_changed[p]
        /\ opening_seq[p] = (OpenSeed(p) + 2) % U128
        /\ sealing_seq[Other(p)] = opening_seq[p]

====
